---------------------------- MODULE Spec2Model ----------------------------
(***************************************************************************)
(* A model of the news-archive pipeline (scripts/update_archive_only.py)   *)
(* and of its export step (scripts/build_data.py).                         *)
(*                                                                         *)
(* Text is modelled as TLA+ strings over an ASCII alphabet.  Characters of *)
(* the program's texts that are not ASCII are written with stand-ins:      *)
(*     "~"   the Hangul syllable U+B2E4 (da), the sentence-final syllable  *)
(*     "^"   any other Hangul syllable (U+AC00..U+D7A3)                    *)
(*     "$"   a kana character (U+3040..U+30FF, U+FF66..U+FF9F)             *)
(*     "{"   the arrow U+2190,  "}" the arrow U+2192                       *)
(*     "="   the mojibake marker U+00C2                                    *)
(* Every other character of a model string stands for itself.             *)
(***************************************************************************)
EXTENDS Integers, Sequences, FiniteSets, TLC

VARIABLES
  cfg,        \* the module-level configuration read from the environment
  exists,     \* whether the archive file (ARCHIVE_PATH) exists
  archive,    \* the lines of the archive file, in file order
  out_exists, \* whether the export (OUTPUT_JSON) exists
  out_rows,   \* the rows of the export, in document order
  nops,       \* the script runs and calls started so far; also the clock
  pc,         \* where main is: "idle", "fetch_it", "fetch_job", "build"
  f,          \* the running call of safe_fetch_news
  got,        \* main's it_articles and job_articles
  last,       \* the last call that finished: its arguments and its outcome
  tin,        \* text functions: the function applied and its arguments
  tout,       \* text functions: what the application returned
  tpc,        \* text functions: "off", "start" before the application, "done" after
  news,       \* the running call of fetch_news: its loop and what it requested
  fab,        \* the running call of fetch_article_body and its parser
  wr          \* concurrent calls of append_entries: where each is, what it read


(***************************************************************************)
(* Characters and character classes                                        *)
(***************************************************************************)
Char(s, i) == SubSeq(s, i, i)

Lowers == {"a","b","c","d","e","f","g","h","i","j","k","l","m",
           "n","o","p","q","r","s","t","u","v","w","x","y","z"}
Uppers == {"A","B","C","D","E","F","G","H","I","J","K","L","M",
           "N","O","P","Q","R","S","T","U","V","W","X","Y","Z"}
Digits == {"0","1","2","3","4","5","6","7","8","9"}
Hangul == {"~", "^"}
Kana   == {"$"}

\* \s of the re module
IsSpace(c) == c \in {" ", "\n", "\t", "\r"}
\* [A-Za-z]
IsAlpha(c) == c \in Lowers \cup Uppers
\* [0-9a-zA-Z<Hangul>]
IsAlnumK(c) == c \in Lowers \cup Uppers \cup Digits \cup Hangul
\* \w of the re module (str patterns: Unicode letters, digits, underscore)
WordChars == Lowers \cup Uppers \cup Digits \cup Hangul \cup Kana \cup {"_", "="}
IsWordCh(c) == c \in WordChars
\* a character that survives encode("latin-1", errors="ignore") followed by
\* decode("utf-8", errors="ignore"): the ASCII ones
IsAscii(c) == c \notin Hangul \cup Kana \cup {"{", "}", "="}

\* str.lower() on one character
LowerCh(c) ==
  CASE c \notin Uppers -> c
    [] c = "A" -> "a" [] c = "B" -> "b" [] c = "C" -> "c" [] c = "D" -> "d"
    [] c = "E" -> "e" [] c = "F" -> "f" [] c = "G" -> "g" [] c = "H" -> "h"
    [] c = "I" -> "i" [] c = "J" -> "j" [] c = "K" -> "k" [] c = "L" -> "l"
    [] c = "M" -> "m" [] c = "N" -> "n" [] c = "O" -> "o" [] c = "P" -> "p"
    [] c = "Q" -> "q" [] c = "R" -> "r" [] c = "S" -> "s" [] c = "T" -> "t"
    [] c = "U" -> "u" [] c = "V" -> "v" [] c = "W" -> "w" [] c = "X" -> "x"
    [] c = "Y" -> "y" [] c = "Z" -> "z" [] OTHER -> c

RECURSIVE Lower(_)
\* str.lower(), character by character (the halves keep the recursion shallow)
Lower(s) ==
  IF \A i \in 1..Len(s) : Char(s, i) \notin Uppers THEN s
  ELSE IF Len(s) = 1 THEN LowerCh(s)
  ELSE LET h == Len(s) \div 2
       IN  Lower(SubSeq(s, 1, h)) \o Lower(SubSeq(s, h + 1, Len(s)))

(***************************************************************************)
(* String helpers (str methods and the shapes of the regular expressions)  *)
(***************************************************************************)
RECURSIVE LStripSet(_, _)
\* str.lstrip(chars)
LStripSet(s, cs) ==
  IF s = "" THEN ""
  ELSE IF Head(s) \in cs THEN LStripSet(Tail(s), cs) ELSE s

RECURSIVE RStripSet(_, _)
\* str.rstrip(chars)
RStripSet(s, cs) ==
  IF s = "" THEN ""
  ELSE IF Char(s, Len(s)) \in cs THEN RStripSet(SubSeq(s, 1, Len(s) - 1), cs) ELSE s

\* str.strip(chars)
StripSet(s, cs) == RStripSet(LStripSet(s, cs), cs)

WhiteSpace == {" ", "\n", "\t", "\r"}

\* str.strip()
Strip(s) == StripSet(s, WhiteSpace)

\* whether lit occurs in s at index i
MatchAt(s, i, lit) ==
  i >= 1 /\ i + Len(lit) - 1 <= Len(s) /\ SubSeq(s, i, i + Len(lit) - 1) = lit

\* the least element of a set of positive integers, 0 when it is empty
Least(S) == IF S = {} THEN 0 ELSE CHOOSE i \in S : \A j \in S : i <= j

\* the first index at which lit occurs in s, 0 when there is none
FindLit(s, lit) == Least({i \in 1..Len(s) : MatchAt(s, i, lit)})

\* the first index at which one of the literals lits occurs in s, 0 when none does
FindAny(s, lits) == Least({i \in 1..Len(s) : \E lit \in lits : MatchAt(s, i, lit)})

\* lit in s
Contains(s, lit) == \E i \in 1..(Len(s) + 1) : MatchAt(s, i, lit)

\* \b at the position between s[i-1] and s[i]
WordBoundary(s, i) ==
  (i > 1 /\ i - 1 <= Len(s) /\ IsWordCh(Char(s, i - 1)))
    # (i >= 1 /\ i <= Len(s) /\ IsWordCh(Char(s, i)))

\* re.search(r"(?i)\b<lit>\b", s), for a lower-case lit
ContainsWord(s, lit) ==
  \E i \in 1..Len(s) :
    /\ MatchAt(Lower(s), i, lit)
    /\ WordBoundary(s, i)
    /\ WordBoundary(s, i + Len(lit))

\* re.search(r"(?i)<lit>", s), for a lower-case lit
ContainsCI(s, lit) == Contains(Lower(s), lit)

\* the largest j >= i - 1 with s[i..j] all satisfying the class cls
RECURSIVE RunEnd(_, _, _)
RunEnd(s, i, cls) ==
  IF i <= Len(s) /\ Char(s, i) \in cls THEN RunEnd(s, i + 1, cls) ELSE i - 1

RECURSIVE RunEndNot(_, _, _)
\* the largest j >= i - 1 with none of s[i..j] in the class cls
RunEndNot(s, i, cls) ==
  IF i <= Len(s) /\ Char(s, i) \notin cls THEN RunEndNot(s, i + 1, cls) ELSE i - 1

RECURSIVE Join(_, _)
\* sep.join(parts)
Join(parts, sep) ==
  IF parts = <<>> THEN ""
  ELSE IF Len(parts) = 1 THEN parts[1]
  ELSE parts[1] \o sep \o Join(Tail(parts), sep)

\* the first index of s from which a character of cls stands, 0 when there is none
FirstIn(s, cls) == Least({i \in 1..Len(s) : Char(s, i) \in cls})

RECURSIVE SplitLines(_)
\* str.splitlines(): the line breaks of the alphabet are \n, \r and \r\n
SplitLines(s) ==
  LET BreakAt(i) ==
        IF i = 0 THEN <<s>>
        ELSE <<SubSeq(s, 1, i - 1)>>
               \o SplitLines(SubSeq(s, (IF MatchAt(s, i, "\r\n") THEN i + 2 ELSE i + 1), Len(s)))
  IN  IF s = "" THEN <<>> ELSE BreakAt(FirstIn(s, {"\n", "\r"}))

\* [f(x) for x in xs if p(x)] is written with SelectSeq and a map
MapSeq(xs, F(_)) == [i \in 1..Len(xs) |-> F(xs[i])]

(***************************************************************************)
(* Patterns: the regular expressions of the program that are more than a   *)
(* literal are sequences of tokens, matched greedily from an index.  None  *)
(* of them needs backtracking: what follows a run of white space or of     *)
(* digits never starts with a character of that run.                       *)
(***************************************************************************)
Lit(v)  == [t |-> "lit", v |-> v]
Ws1     == [t |-> "ws+", v |-> ""]
Ws0     == [t |-> "ws*", v |-> ""]
Alpha1  == [t |-> "alpha", v |-> ""]
Digits1 == [t |-> "digits+", v |-> ""]
NonWs1  == [t |-> "nonws+", v |-> ""]
Opt(v)  == [t |-> "opt", v |-> v]
WordB   == [t |-> "\\b", v |-> ""]

RECURSIVE MatchPat(_, _, _)
\* the index after the match of pat at index i of s; 0 when pat does not match there
MatchPat(s, i, pat) ==
  LET \* a run that ends at e, and is not empty, then the rest of pat
      Run(e) == IF e >= i THEN MatchPat(s, e + 1, Tail(pat)) ELSE 0
      Token(tk) ==
        CASE tk.t = "lit" ->
               IF MatchAt(s, i, tk.v) THEN MatchPat(s, i + Len(tk.v), Tail(pat)) ELSE 0
          [] tk.t = "ws+" -> Run(RunEnd(s, i, WhiteSpace))
          [] tk.t = "ws*" -> MatchPat(s, RunEnd(s, i, WhiteSpace) + 1, Tail(pat))
          [] tk.t = "alpha" ->
               IF i <= Len(s) /\ IsAlpha(Char(s, i)) THEN MatchPat(s, i + 1, Tail(pat)) ELSE 0
          [] tk.t = "digits+" -> Run(RunEnd(s, i, Digits))
          [] tk.t = "opt" ->
               MatchPat(s, IF MatchAt(s, i, tk.v) THEN i + Len(tk.v) ELSE i, Tail(pat))
          [] tk.t = "nonws+" -> Run(RunEndNot(s, i, WhiteSpace))
          [] tk.t = "\\b" ->
               IF WordBoundary(s, i) THEN MatchPat(s, i, Tail(pat)) ELSE 0
  IN  IF pat = <<>> THEN i ELSE Token(Head(pat))

\* the first index at which pat matches in s, 0 when there is none
FindPat(s, pat) == Least({i \in 1..Len(s) : MatchPat(s, i, pat) # 0})

RECURSIVE SubPat(_, _, _)
\* re.sub(pat, "", s), where ls is s as the pattern reads it (s itself, or
\* Lower(s) for a case-insensitive pattern written in lower case)
SubPat(s, ls, pat) ==
  LET Rest(e) == SubPat(SubSeq(s, e, Len(s)), SubSeq(ls, e, Len(ls)), pat)
      From(i) == IF i = 0 THEN s ELSE SubSeq(s, 1, i - 1) \o Rest(MatchPat(ls, i, pat))
  IN  From(FindPat(ls, pat))

\* re.sub(r"(?is)<pat>.*$", "", s).strip(), for a pattern written in lower
\* case; ls is Lower(s), which the pattern is matched on
CutFrom(s, ls, pat) ==
  LET From(i) == Strip(IF i = 0 THEN s ELSE SubSeq(s, 1, i - 1))
  IN  From(FindPat(ls, pat))

(***************************************************************************)
(* Text sanitizing: update_archive_only.py                                 *)
(***************************************************************************)
RECURSIVE html_unescape(_)
\* html.unescape(s), one pass from the left; the character references of the
\* model's texts are &amp; and &#32;
html_unescape(s) ==
  LET From(i) ==
        IF i = 0 THEN s
        ELSE SubSeq(s, 1, i - 1) \o (IF MatchAt(s, i, "&amp;") THEN "&" ELSE " ")
               \o html_unescape(SubSeq(s, i + 5, Len(s)))
  IN  From(FindAny(s, {"&amp;", "&#32;"}))

RECURSIVE CollapseRuns(_, _)
\* re.sub(r"[<cls>]+", " ", s)
CollapseRuns(s, cls) ==
  LET From(i) ==
        IF i = 0 THEN s
        ELSE SubSeq(s, 1, i - 1) \o " "
               \o CollapseRuns(SubSeq(s, RunEnd(s, i, cls) + 1, Len(s)), cls)
  IN  From(FirstIn(s, cls))

\* MOJIBAKE_MARKERS: of the markers, the alphabet holds U+00C2
MOJIBAKE_MARKERS == {"="}

RECURSIVE KeepAscii(_)
\* s.encode("latin-1", errors="ignore").decode("utf-8", errors="ignore"): the
\* characters outside Latin-1 are dropped by the encoding, and a byte 0xC2
\* that no continuation byte follows is dropped by the decoding
KeepAscii(s) ==
  IF Len(s) = 0 THEN ""
  ELSE IF Len(s) = 1 THEN (IF IsAscii(s) THEN s ELSE "")
  ELSE LET h == Len(s) \div 2
       IN  KeepAscii(SubSeq(s, 1, h)) \o KeepAscii(SubSeq(s, h + 1, Len(s)))

\* the suffix patterns of clean_text, in the order they are applied; the
\* pattern of line 47 is a Hangul phrase, which no text of the model holds
FEED_NOISE ==
  << <<Lit("related"), Ws1, Alpha1>>,
     <<WordB, Lit("facebook"), Ws1, Lit("twitter"), Ws1, Lit("linkedin")>>,
     <<WordB, Lit("like this:"), Ws0, Lit("like loading...")>>,
     <<Lit("loading comments...")>>,
     <<Lit("you must be logged in to post a comment.")>>,
     <<Lit("%d bloggers like this:")>>,
     <<Lit("{")>>,
     <<Lit("}")>> >>

RECURSIVE CutEach(_, _, _)
\* the suffix patterns pats applied in turn to s, whose Lower is ls (Lower
\* commutes with cutting and stripping, so it is cut along)
CutEach(s, ls, pats) ==
  LET Cut(i) ==
        CutEach(Strip(IF i = 0 THEN s ELSE SubSeq(s, 1, i - 1)),
                Strip(IF i = 0 THEN ls ELSE SubSeq(ls, 1, i - 1)), Tail(pats))
  IN  IF pats = <<>> THEN s ELSE Cut(FindPat(ls, Head(pats)))

CutAll(s, pats) == IF s = "" THEN "" ELSE CutEach(s, Lower(s), pats)

clean_text(s0) ==
  IF s0 = "" THEN ""
  ELSE
    LET s1 == html_unescape(s0)
        s2 == Strip(CollapseRuns(s1, WhiteSpace))
        S3(s) == IF s = "" THEN "" ELSE SubPat(s, s, <<Lit("http"), Opt("s"), Lit("://"), NonWs1>>)
        S4(s) == IF s = "" THEN "" ELSE SubPat(s, Lower(s), <<Lit("+"), Digits1, Ws0, Lit("chars")>>)
        S5(s) == IF s = "" THEN ""
                 ELSE IF \E m \in MOJIBAKE_MARKERS : Contains(s, m) THEN KeepAscii(s) ELSE s
    IN  StripSet(CutAll(S5(S4(S3(s2))), FEED_NOISE), {" ", "-"})

\* the lines of normalize_inner_text's result
inner_lines(s0) ==
  LET s1 == html_unescape(s0)
      s2 == CollapseRuns(s1, {" ", "\t"})
  IN  SelectSeq(MapSeq(SplitLines(s2), Strip), LAMBDA ln : ln # "")

normalize_inner_text(s0) ==
  IF s0 = "" THEN "" ELSE Join(inner_lines(s0), "\n")

\* re.findall(r"[0-9a-zA-Z<Hangul>]{2,}", s) as a set: the maximal runs of two
\* or more such characters
Terms(s) ==
  {SubSeq(s, i, RunEnd(s, i, Lowers \cup Uppers \cup Digits \cup Hangul)) :
     i \in {k \in 1..Len(s) :
              /\ IsAlnumK(Char(s, k))
              /\ (k = 1 \/ ~IsAlnumK(Char(s, k - 1)))
              /\ k + 1 <= Len(s) /\ IsAlnumK(Char(s, k + 1))}}

\* the stop words of _context_terms that the alphabet can spell
STOP_TERMS == {"today", "news", "the", "and"}

_context_terms(title, description) ==
  Terms(Lower(title \o " " \o description)) \ STOP_TERMS

\* junk_hint of minimal_context_filter: the first alternative is a list of
\* words searched without word boundaries; the second is Hangul words
JUNK_HINTS == {"login", "sign in", "sign up", "newsletter", "subscribe", "cookie",
               "privacy", "terms", "menu", "home", "copyright", "all rights reserved"}

junk_hint(line) == \E w \in JUNK_HINTS : ContainsCI(line, w)

minimal_context_filter(title, description, body_text) ==
  LET Keep(line, terms) ==
        /\ line # ""
        /\ Len(line) > 2
        /\ \/ ~junk_hint(line)
           \/ (terms # {} /\ Terms(Lower(line)) \cap terms # {})
      \* kept, or every line that is not empty when nothing was kept
      Kept(lines, kept) == IF kept = <<>> THEN SelectSeq(lines, LAMBDA x : x # "") ELSE kept
      \* lines: source.splitlines(), each as clean_text leaves it
      Filter(lines, terms) ==
        IF lines = <<>> THEN ""
        ELSE Join(Kept(lines, SelectSeq(lines, LAMBDA line : Keep(line, terms))), "\n")
  IN  IF body_text = "" THEN ""
      ELSE Filter(MapSeq(inner_lines(body_text), clean_text), _context_terms(title, description))

Take(xs, n) == SubSeq(xs, 1, IF Len(xs) < n THEN Len(xs) ELSE n)

enforce_line_limit(text, limit) ==
  Join(Take(SelectSeq(MapSeq(SplitLines(text), Strip), LAMBDA ln : ln # ""), limit), "\n")

bulletize_lines(lines) ==
  MapSeq(SelectSeq(MapSeq(lines, clean_text), LAMBDA ln : ln # ""), LAMBDA ln : "- " \o ln)

\* the characters a sentence may end with: ".!?" and the syllable da
TERMINALS == {".", "!", "?", "~"}

RECURSIVE SplitSentences(_)
\* re.split(r"(?<=[.!?<ideographic full stop>])\s+|(?<=<da>\.)\s+|(?<=<yo>\.)\s+", s):
\* a split is a run of white space that starts right after one of ".!?"
SplitSentences(s) ==
  LET At(i) ==
        IF i = 0 THEN <<s>>
        ELSE <<SubSeq(s, 1, i - 1)>>
               \o SplitSentences(SubSeq(s, RunEnd(s, i, WhiteSpace) + 1, Len(s)))
  IN  At(Least({i \in 2..Len(s) : IsSpace(Char(s, i)) /\ Char(s, i - 1) \in {".", "!", "?"}}))

\* the message local_summary returns for an empty text
NO_BODY_MESSAGE == "^^^ ^^^ ^^^^~."

EndSentence(sentence) ==
  IF Char(sentence, Len(sentence)) \notin TERMINALS THEN sentence \o "." ELSE sentence

local_summary(title, description, content) ==
  LET Bullets(sentences) ==
        MapSeq(Take(SelectSeq(MapSeq(sentences, clean_text), LAMBDA x : x # ""),
                    cfg.MAX_SUMMARY_LINES),
               LAMBDA x : "- " \o EndSentence(x))
      Sentences(merged, split) == IF split = <<>> THEN <<merged>> ELSE split
      Summary(merged) ==
        IF merged = "" THEN NO_BODY_MESSAGE
        ELSE enforce_line_limit(
               Join(Bullets(Sentences(merged,
                      SelectSeq(MapSeq(SplitSentences(merged), LAMBDA x : StripSet(x, {" ", "-"})),
                                LAMBDA x : x # ""))), "\n"),
               cfg.MAX_SUMMARY_LINES)
  IN  Summary(Join(SelectSeq(MapSeq(<<title, description, content>>, clean_text),
                             LAMBDA x : x # ""), " "))

\* normalize_bullet_output leaving plain paragraphs as they are
normalize_bullet_output_plain(text) ==
  LET Fixed(lines) ==
        MapSeq(SelectSeq(MapSeq(lines, LAMBDA ln : clean_text(Strip(LStripSet(ln, {"-", " "})))),
                         LAMBDA x : x # ""),
               LAMBDA x : "- " \o EndSentence(x))
      Bullets(lines) ==
        IF ~\E k \in 1..Len(lines) : MatchAt(LStripSet(lines[k], WhiteSpace), 1, "-")
        THEN lines
        ELSE Fixed(lines)
      Normal(lines) ==
        IF lines = <<>> THEN ""
        ELSE enforce_line_limit(Join(Bullets(lines), "\n"), cfg.MAX_SUMMARY_LINES)
  IN  Normal(MapSeq(SelectSeq(SplitLines(text), LAMBDA ln : Strip(ln) # ""),
                    LAMBDA ln : RStripSet(ln, WhiteSpace)))

normalize_bullet_output(text) ==
  LET Fixed(lines) ==
        MapSeq(SelectSeq(MapSeq(lines, LAMBDA ln : clean_text(Strip(LStripSet(ln, {"-", " "})))),
                         LAMBDA x : x # ""),
               LAMBDA x : "- " \o EndSentence(x))
      Bullets(lines) ==
        IF ~\E k \in 1..Len(lines) : MatchAt(LStripSet(lines[k], WhiteSpace), 1, "-")
        THEN bulletize_lines(lines)
        ELSE Fixed(lines)
      Normal(lines) ==
        IF lines = <<>> THEN ""
        ELSE enforce_line_limit(Join(Bullets(lines), "\n"), cfg.MAX_SUMMARY_LINES)
  IN  Normal(MapSeq(SelectSeq(SplitLines(text), LAMBDA ln : Strip(ln) # ""),
                    LAMBDA ln : RStripSet(ln, WhiteSpace)))

(***************************************************************************)
(* The responses of the external reasoning service.  A call either raises  *)
(* (network error, timeout, a body that is no JSON object, an output_text  *)
(* that is no string) or yields the text of output_text, "" when the       *)
(* response has none.                                                      *)
(***************************************************************************)
Raises == [kind |-> "raise", text |-> ""]
Text(t) == [kind |-> "text", text |-> t]
NoCall == <<>>

\* llm_core_summary, given the response its call gets: whether it raised,
\* and what it returned
llm_core_summary(resp) ==
  IF resp.kind = "raise" THEN [raised |-> TRUE, value |-> ""]
  ELSE [raised |-> FALSE, value |-> clean_text(Strip(resp.text))]

\* llm_format_bullets, given the response its call gets
llm_format_bullets(resp) ==
  IF resp.kind = "raise" THEN [raised |-> TRUE, value |-> ""]
  ELSE [raised |-> FALSE, value |-> normalize_bullet_output(Strip(resp.text))]

\* the try block calling the second stage whatever the first returned
summarize_try_always_B(title, description, filtered_source, respA, respB) ==
  LET Local(text, calls) ==
        [raised |-> FALSE, ret |-> local_summary(title, description, text),
         calls |-> calls, tier |-> "local"]
      StageB(core, bullets) ==
        IF bullets.raised
        THEN [raised |-> TRUE, ret |-> "", calls |-> <<"A", "B">>, tier |-> "none"]
        ELSE IF bullets.value # ""
        THEN [raised |-> FALSE, ret |-> bullets.value, calls |-> <<"A", "B">>,
              tier |-> "stageB"]
        ELSE Local(core.value, <<"A", "B">>)
      StageA(core) ==
        IF core.raised
        THEN [raised |-> TRUE, ret |-> "", calls |-> <<"A">>, tier |-> "none"]
        ELSE StageB(core, llm_format_bullets(respB))
  IN  StageA(llm_core_summary(respA))

\* the try block of summarize (lines 253 to 259): whether an exception left
\* it, what it returned otherwise, and the stages it called, in order
summarize_try(title, description, filtered_source, respA, respB) ==
  LET Local(text, calls) ==
        [raised |-> FALSE, ret |-> local_summary(title, description, text),
         calls |-> calls, tier |-> "local"]
      StageB(core, bullets) ==
        IF bullets.raised
        THEN [raised |-> TRUE, ret |-> "", calls |-> <<"A", "B">>, tier |-> "none"]
        ELSE IF bullets.value # ""
        THEN [raised |-> FALSE, ret |-> bullets.value, calls |-> <<"A", "B">>,
              tier |-> "stageB"]
        ELSE Local(core.value, <<"A", "B">>)
      StageA(core) ==
        IF core.raised
        THEN [raised |-> TRUE, ret |-> "", calls |-> <<"A">>, tier |-> "none"]
        ELSE IF core.value = ""
        THEN Local(filtered_source, <<"A">>)
        ELSE StageB(core, llm_format_bullets(respB))
  IN  StageA(llm_core_summary(respA))

\* summarize with its except clause left out: what the try block does
summarize_uncaught(title, description, content, respA, respB) ==
  summarize_try(title, description, minimal_context_filter(title, description, content),
                respA, respB)

\* summarize, given the responses the two stages would get
summarize(title, description, content, respA, respB) ==
  LET Local(text, calls) ==
        [raised |-> FALSE, ret |-> local_summary(title, description, text),
         calls |-> calls, tier |-> "local"]
      \* the except clause of line 259
      Caught(tried, filtered_source) ==
        IF tried.raised THEN Local(filtered_source, tried.calls) ELSE tried
      From(filtered_source) ==
        IF filtered_source = "" THEN Local(content, NoCall)
        ELSE IF cfg.OPENAI_API_KEY
        THEN Caught(summarize_try(title, description, filtered_source, respA, respB),
                    filtered_source)
        ELSE Local(filtered_source, NoCall)
  IN  From(minimal_context_filter(title, description, content))

format_crawled_body(title, description, body_text) ==
  LET \* the lines whose lower case no earlier line has
      Dedup(lines) ==
        SelectSeq([k \in 1..Len(lines) |-> <<k, lines[k]>>],
                  LAMBDA e : ~\E j \in 1..(e[1] - 1) : Lower(lines[j]) = Lower(e[2]))
      Format(filtered) ==
        IF filtered = "" THEN ""
        ELSE Join(MapSeq(Dedup(SelectSeq(MapSeq(SplitLines(filtered), clean_text),
                                         LAMBDA ln : ln # "")),
                         LAMBDA e : "- " \o e[2]), "\n")
  IN  Format(minimal_context_filter(title, description, body_text))

\* re.search(r"[A-Za-z0-9<Hangul>]", text)
_has_readable_content(text) == \E i \in 1..Len(text) : IsAlnumK(Char(text, i))

\* the value that stands for "could not be summarized"
SENTINEL == "^^^ ^ ^^ ^^^^~"

_fallback_ai_summary(title, text) ==
  LET Title(t) == IF t # "" THEN Take(t, 5) ELSE "^^^^"
      Lines(clean, sents, key) ==
        "^^: " \o Title(clean_text(title)) \o "\n^^ ^^: " \o key \o "\n- ^^ ^^^: " \o key
          \o "\n- ^^ ^^^: " \o (IF Len(sents) > 1 THEN sents[2] ELSE key)
          \o "\n- ^^ ^^^: " \o (IF Len(sents) > 2 THEN sents[3] ELSE clean)
      Format(clean, sents) == Lines(clean, sents, IF sents # <<>> THEN sents[1] ELSE clean)
      Summary(clean) ==
        IF ~_has_readable_content(clean) THEN SENTINEL
        ELSE Format(clean, SelectSeq(MapSeq(SplitSentences(clean), clean_text),
                                     LAMBDA x : x # ""))
  IN  Summary(clean_text(text))

_normalize_ai_summary_text(text) ==
  IF text = "" THEN ""
  ELSE Join(SelectSeq(MapSeq(SplitLines(text), clean_text), LAMBDA ln : ln # ""), "\n")

\* build_ai_summary returning the response's text as it is normalized,
\* readable or not
build_ai_summary_unchecked(title, description, body_text, resp) ==
  LET Checked(text) == IF _has_readable_content(text) THEN text ELSE SENTINEL
      Summary(source) ==
        IF ~_has_readable_content(source)
        THEN [ret |-> SENTINEL, calls |-> NoCall]
        ELSE IF cfg.OPENAI_API_KEY /\ resp.kind # "raise"
        THEN [ret |-> _normalize_ai_summary_text(resp.text), calls |-> <<"S">>]
        ELSE [ret |-> Checked(_fallback_ai_summary(title, source)),
              calls |-> IF cfg.OPENAI_API_KEY THEN <<"S">> ELSE NoCall]
  IN  Summary(minimal_context_filter(title, description, body_text))

\* build_ai_summary, given the response the reasoning call would get
build_ai_summary(title, description, body_text, resp) ==
  LET Checked(text) == IF _has_readable_content(text) THEN text ELSE SENTINEL
      Summary(source) ==
        IF ~_has_readable_content(source)
        THEN [ret |-> SENTINEL, calls |-> NoCall]
        ELSE IF cfg.OPENAI_API_KEY /\ resp.kind # "raise"
        THEN [ret |-> Checked(_normalize_ai_summary_text(resp.text)), calls |-> <<"S">>]
        ELSE [ret |-> Checked(_fallback_ai_summary(title, source)),
              calls |-> IF cfg.OPENAI_API_KEY THEN <<"S">> ELSE NoCall]
  IN  Summary(minimal_context_filter(title, description, body_text))

(***************************************************************************)
(* The noise filter                                                        *)
(***************************************************************************)
\* NOISE_PATTERNS[0..2]: lists of words between word boundaries
NOISE_WORDS ==
  {"login", "sign in", "sign up", "newsletter", "subscribe", "cookie", "privacy", "terms",
   "copyright", "all rights reserved", "advertisement", "sponsored", "facebook", "twitter",
   "instagram", "linkedin", "youtube", "kakaotalk", "share"}

AllIn(s, i, j, cls) == \A k \in i..j : Char(s, k) \in cls

\* NOISE_PATTERNS[3]: ^\s*(Reporter|By)\s*: on some line of the text
IsByline(s) ==
  \E i \in 1..Len(s) :
    /\ (i = 1 \/ Char(s, i - 1) = "\n")
    /\ \E w \in {"reporter", "by"} :
         MatchPat(Lower(s), i, <<Ws0, Lit(w), Ws0, Lit(":")>>) # 0

EmailChars == WordChars \cup {".", "-"}

\* NOISE_PATTERNS[4]: \b[\w\.-]+@[\w\.-]+\.\w+\b
HasEmail(s) ==
  \E k \in 2..Len(s) :
    /\ Char(s, k) = "@"
    /\ \E i \in 1..(k - 1) : AllIn(s, i, k - 1, EmailChars) /\ WordBoundary(s, i)
    /\ \E j \in (k + 1)..(Len(s) - 2) :
         /\ AllIn(s, k + 1, j, EmailChars)
         /\ Char(s, j + 1) = "."
         /\ IsWordCh(Char(s, j + 2))

\* an optional separator of the phone pattern: [-.\s]?
PhoneSeps == {"-", ".", " ", "\n", "\t", "\r"}

\* NOISE_PATTERNS[5]: \b\d{2,4}[-.\s]?\d{3,4}[-.\s]?\d{4}\b
HasPhone(s) ==
  \E i \in 1..Len(s) : \E a \in 2..4 : \E p \in 0..1 : \E b \in 3..4 : \E q \in 0..1 :
    LET g2 == i + a + p
        g3 == g2 + b + q
    IN  /\ g3 + 3 <= Len(s)
        /\ WordBoundary(s, i)
        /\ AllIn(s, i, i + a - 1, Digits)
        /\ (p = 1 => Char(s, i + a) \in PhoneSeps)
        /\ AllIn(s, g2, g2 + b - 1, Digits)
        /\ (q = 1 => Char(s, g2 + b) \in PhoneSeps)
        /\ AllIn(s, g3, g3 + 3, Digits)
        /\ WordBoundary(s, g3 + 4)

\* any(rx.search(line) for rx in NOISE_PATTERNS); NOISE_PATTERNS[6] and the
\* first two labels of NOISE_PATTERNS[3] are Hangul words
IsNoise(line) ==
  \/ \E w \in NOISE_WORDS : ContainsWord(line, w)
  \/ IsByline(line)
  \/ HasEmail(line)
  \/ HasPhone(line)

\* JP_RE.search(line)
HasKana(line) == \E i \in 1..Len(line) : Char(line, i) \in Kana

\* the shortest paragraph the filter keeps
MIN_PARAGRAPH_LEN == 10

\* filter_article_paragraphs without lines 424 and 425
filter_article_paragraphs_no_fallback(paragraphs) ==
  LET Keep(line) ==
        line # "" /\ ~HasKana(line) /\ Len(line) >= MIN_PARAGRAPH_LEN /\ ~IsNoise(line)
  IN  SelectSeq(MapSeq(paragraphs, clean_text), Keep)

filter_article_paragraphs(paragraphs) ==
  LET Keep(line) ==
        line # "" /\ ~HasKana(line) /\ Len(line) >= MIN_PARAGRAPH_LEN /\ ~IsNoise(line)
      \* kept, or every line that is not empty when nothing was kept
      Kept(lines, kept) == IF kept = <<>> THEN SelectSeq(lines, LAMBDA x : x # "") ELSE kept
      \* lines: the paragraphs, each as clean_text leaves it
      Filter(lines) == Kept(lines, SelectSeq(lines, Keep))
  IN  Filter(MapSeq(paragraphs, clean_text))

(***************************************************************************)
(* The archive: a file of lines.  A line is blank, or is no JSON           *)
(* ("malformed"), or is JSON but no object ("nonobject": a list, a number, *)
(* a string, null), or is a record, the JSON object of a row.              *)
(***************************************************************************)
\* what dict.get returns for a key the row does not have
None == "<None>"

RowKeys == {"id", "title", "summary", "body", "ai_summary", "scraped_body", "url",
            "category", "article_published_at", "fetched_at", "published_at", "archived_at"}

NoRow == [k \in RowKeys |-> None]

BlankLine     == [kind |-> "blank", row |-> NoRow]
MalformedLine == [kind |-> "malformed", row |-> NoRow]
NonObjectLine == [kind |-> "nonobject", row |-> NoRow]
\* json.dumps(row, ensure_ascii=False) + "\n"; json.loads of the line gives row back
RecordLine(row) == [kind |-> "record", row |-> row]

\* row.get(key, default)
GetOr(v, default) == IF v = None THEN default ELSE v

\* load_existing_ids(path): raised when a line parses to something that has
\* no get method (only json.loads is inside the try block); ids otherwise
load_existing_ids(ex, lines) ==
  IF ~ex THEN [raised |-> FALSE, ids |-> {}]
  ELSE IF \E i \in 1..Len(lines) : lines[i].kind = "nonobject"
  THEN [raised |-> TRUE, ids |-> {}]
  ELSE [raised |-> FALSE,
        ids |-> {Strip(GetOr(lines[i].row.id, "")) :
                   i \in {k \in 1..Len(lines) : lines[k].kind = "record"}} \ {""}]

RECURSIVE AppendLoop(_, _)
\* the lines the loop of append_entries writes, given the ids seen so far
AppendLoop(entries, existing) ==
  IF entries = <<>> THEN <<>>
  ELSE LET rid == GetOr(Head(entries).id, "")
       IN  IF rid = "" \/ rid \in existing
           THEN AppendLoop(Tail(entries), existing)
           ELSE <<RecordLine(Head(entries))>> \o AppendLoop(Tail(entries), existing \cup {rid})

\* append_entries opening the file for writing ("w") instead of appending
append_entries_rewriting(ex, lines, entries) ==
  LET loaded  == load_existing_ids(ex, lines)
      written == AppendLoop(entries, loaded.ids)
  IN  IF loaded.raised
      THEN [raised |-> TRUE, added |-> 0, exists |-> ex, lines |-> lines]
      ELSE [raised |-> FALSE, added |-> Len(written), exists |-> TRUE, lines |-> written]

\* append_entries(path, entries) on a file that exists or not and holds lines:
\* whether it raised, what it returned, and the file afterwards (opening the
\* file for appending creates it)
append_entries(ex, lines, entries) ==
  LET loaded  == load_existing_ids(ex, lines)
      written == AppendLoop(entries, loaded.ids)
  IN  IF loaded.raised
      THEN [raised |-> TRUE, added |-> 0, exists |-> ex, lines |-> lines]
      ELSE [raised |-> FALSE, added |-> Len(written), exists |-> TRUE,
            lines |-> lines \o written]

\* make_id: the first 16 hex digits of the SHA-1 of "url|title|published_at".
\* The digest is modelled as an injective function of the hashed text: a
\* non-empty value without white space around it.
make_id(url, title, published_at) ==
  "h(" \o url \o "|" \o title \o "|" \o published_at \o ")"

\* the loop of unique_articles over the articles left, with the keys seen and
\* n = len(out); the limit is tested after an article is appended
RECURSIVE UniqueLoop(_, _, _, _)
UniqueLoop(articles, limit, seen, n) ==
  LET Step(a, title, url) ==
        IF title = "" \/ url = "" \/ Lower(title) \in seen
        THEN UniqueLoop(Tail(articles), limit, seen, n)
        ELSE IF n + 1 >= limit THEN <<a>>
        ELSE <<a>> \o UniqueLoop(Tail(articles), limit, seen \cup {Lower(title)}, n + 1)
  IN  IF articles = <<>> THEN <<>>
      ELSE Step(Head(articles), clean_text(Head(articles).title), Strip(Head(articles).url))

\* the loop with the cleaned title itself as the key
RECURSIVE UniqueLoopCased(_, _, _, _)
UniqueLoopCased(articles, limit, seen, n) ==
  LET Step(a, title, url) ==
        IF title = "" \/ url = "" \/ title \in seen
        THEN UniqueLoopCased(Tail(articles), limit, seen, n)
        ELSE IF n + 1 >= limit THEN <<a>>
        ELSE <<a>> \o UniqueLoopCased(Tail(articles), limit, seen \cup {title}, n + 1)
  IN  IF articles = <<>> THEN <<>>
      ELSE Step(Head(articles), clean_text(Head(articles).title), Strip(Head(articles).url))

unique_articles_cased(articles, limit) == UniqueLoopCased(articles, limit, {}, 0)

\* unique_articles(articles, limit)
unique_articles(articles, limit) == UniqueLoop(articles, limit, {}, 0)

\* x or y, on strings
Or(x, y) == IF x # "" THEN x ELSE y

\* the entry main builds for article a of a category: extracted is what
\* fetch_article_body returned for its url, resp the reasoning call's
\* response, now the run's time stamp (the constant field "source" of the
\* entry is left out: nothing reads it)
make_entry(a, category, extracted, resp, now) ==
  LET Row(title, published, body_raw, formatted_body, summary, ai_summary) ==
        [id |-> make_id(Strip(a.url), title, published),
         title |-> title,
         summary |-> summary,
         body |-> Or(formatted_body, summary),
         ai_summary |-> ai_summary,
         scraped_body |-> body_raw,
         url |-> Strip(a.url),
         category |-> category,
         article_published_at |-> published,
         fetched_at |-> now,
         published_at |-> published,
         archived_at |-> now]
      Formatted(title, desc, published, body_raw, formatted_body) ==
        Row(title, published, body_raw, formatted_body,
            Or(formatted_body, clean_text(Or(desc, body_raw))),
            build_ai_summary(title, desc, body_raw, resp).ret)
      Fields(title, desc, content, published) ==
        LET Body(body_raw) ==
              Formatted(title, desc, published, body_raw,
                        format_crawled_body(title, desc, body_raw))
        IN  Body(Or(extracted, Or(content, desc)))
  IN  Fields(clean_text(a.title), clean_text(a.description), clean_text(a.content),
             clean_text(a.publishedAt))

(***************************************************************************)
(* The export: build_data.py                                               *)
(***************************************************************************)
\* sanitize(text, field); the texts of the model hold no NUL
sanitize(text, field) ==
  LET \* _fix_mojibake
      Fix(t) == IF \E m \in MOJIBAKE_MARKERS : Contains(t, m) THEN KeepAscii(t) ELSE t
      Noise(t) == IF field \in {"summary", "body"} THEN CutAll(t, FEED_NOISE) ELSE t
  IN  IF text = None THEN "" ELSE Noise(Fix(html_unescape(Strip(text))))

looks_like_bullets(text) ==
  LET First(lines) == lines # <<>> /\ MatchAt(lines[1], 1, "-")
  IN  First(SelectSeq(MapSeq(SplitLines(text), Strip), LAMBDA ln : ln # ""))

\* max_lines of make_bullet_summary
MAX_BULLET_LINES == 24

make_bullet_summary(text0) ==
  LET Out(sents) ==
        MapSeq(Take(SelectSeq(MapSeq(sents, LAMBDA x : Strip(sanitize(x, "body"))),
                              LAMBDA x : x # ""),
                    MAX_BULLET_LINES),
               LAMBDA x : "- " \o EndSentence(x))
      Sentences(text, split) == IF split = <<>> THEN <<text>> ELSE split
      Summary(text) ==
        IF text = "" THEN ""
        ELSE Join(Out(Sentences(text,
                    SelectSeq(MapSeq(SplitSentences(text), LAMBDA x : StripSet(x, {" ", "-"})),
                              LAMBDA x : x # ""))), "\n")
  IN  Summary(sanitize(text0, "body"))

\* x or y, where x may be None
OrNone(x, y) == IF x = None \/ x = "" THEN y ELSE x

\* the row the export appends for a record of the archive
export_row(row) ==
  LET Row(summary0, body0, ai_summary, scraped_body, bullets, bullet) ==
        [id |-> sanitize(row.id, "id"),
         title |-> sanitize(row.title, "title"),
         summary |-> IF bullets THEN summary0 ELSE IF bullet # "" THEN bullet ELSE summary0,
         body |-> IF bullets THEN summary0 ELSE IF bullet # "" THEN bullet ELSE body0,
         ai_summary |-> Or(ai_summary, SENTINEL),
         thumbnail |-> "",
         scraped_body |-> scraped_body,
         url |-> sanitize(row.url, "url"),
         category |-> sanitize(row.category, "category"),
         article_published_at |->
           sanitize(OrNone(row.article_published_at, row.published_at), "article_published_at"),
         fetched_at |-> sanitize(OrNone(row.fetched_at, row.archived_at), "fetched_at"),
         published_at |-> sanitize(row.published_at, "published_at"),
         archived_at |-> sanitize(row.archived_at, "archived_at")]
      Texts(summary0, body0, ai_summary, scraped_body) ==
        Row(summary0, body0, ai_summary, scraped_body, looks_like_bullets(summary0),
            make_bullet_summary(Or(scraped_body, Or(body0, summary0))))
  IN  Texts(sanitize(row.summary, "summary"), sanitize(row.body, "body"),
            sanitize(row.ai_summary, "summary"), sanitize(row.scraped_body, "body"))

\* the characters of the model's time stamps, in code point order
CODE_ORDER == "+-.0123456789:TZ"

Ord(c) == FindLit(CODE_ORDER, c)

RECURSIVE StrLess(_, _)
\* a < b on strings
StrLess(a, b) ==
  IF b = "" THEN FALSE
  ELSE IF a = "" THEN TRUE
  ELSE IF Head(a) = Head(b) THEN StrLess(Tail(a), Tail(b))
  ELSE Ord(Head(a)) < Ord(Head(b))

\* the sort key of the export
sort_key(x) == Or(x.fetched_at, x.archived_at)

RECURSIVE InsertDesc(_, _)
\* x placed after the rows whose key is not smaller than its own
InsertDesc(sorted, x) ==
  IF sorted = <<>> THEN <<x>>
  ELSE IF StrLess(sort_key(Head(sorted)), sort_key(x)) THEN <<x>> \o sorted
  ELSE <<Head(sorted)>> \o InsertDesc(Tail(sorted), x)

RECURSIVE SortDesc(_)
\* rows.sort(key=..., reverse=True): descending and stable
SortDesc(rows) ==
  IF rows = <<>> THEN <<>>
  ELSE InsertDesc(SortDesc(SubSeq(rows, 1, Len(rows) - 1)), rows[Len(rows)])

\* main of build_data.py writing the empty dataset whenever the source is
\* absent
build_data_main_always_writes(ex, lines, out_ex, rows0) ==
  LET recs == SelectSeq(lines, LAMBDA ln : ln.kind = "record")
      rows == MapSeq(recs, LAMBDA ln : export_row(ln.row))
  IN  IF ex /\ \E i \in 1..Len(lines) : lines[i].kind = "nonobject"
      THEN [raised |-> TRUE, ret |-> 1, out_exists |-> out_ex, out_rows |-> rows0]
      ELSE [raised |-> FALSE, ret |-> 0, out_exists |-> TRUE,
            out_rows |-> IF ex THEN SortDesc(rows) ELSE <<>>]

\* main of build_data.py on a source that exists or not and holds lines, and
\* an output that exists or not and holds rows
build_data_main(ex, lines, out_ex, rows0) ==
  LET recs == SelectSeq(lines, LAMBDA ln : ln.kind = "record")
      rows == MapSeq(recs, LAMBDA ln : export_row(ln.row))
  IN  IF ex /\ \E i \in 1..Len(lines) : lines[i].kind = "nonobject"
      THEN [raised |-> TRUE, ret |-> 1, out_exists |-> out_ex, out_rows |-> rows0]
      ELSE IF ~ex /\ out_ex
      THEN [raised |-> FALSE, ret |-> 0, out_exists |-> out_ex, out_rows |-> rows0]
      ELSE [raised |-> FALSE, ret |-> 0, out_exists |-> TRUE,
            out_rows |-> IF ex THEN SortDesc(rows) ELSE <<>>]

(***************************************************************************)
(* The runs of the scripts.  One run or call at a time: append_entries     *)
(* called on its own, update_archive_only.py (main) and build_data.py      *)
(* (main).  main is followed through its two calls of safe_fetch_news,     *)
(* one iteration of the retry loop at a time.                              *)
(***************************************************************************)
\* the runs and calls a behaviour of the model starts
MaxOps == 2

\* the largest MAX_SUMMARY_LINES of the model's configurations
MaxLines == 2

\* range(1, 4): the attempts of safe_fetch_news
MAX_ATTEMPTS == 3

\* now.isoformat() of the n-th run
Stamp(n) == "T" \o Char("0123456789", (n % 10) + 1)

Config(lines, openai, newsapi, limit) ==
  [MAX_SUMMARY_LINES |-> lines, OPENAI_API_KEY |-> openai, NEWSAPI_KEY |-> newsapi,
   ITEM_LIMIT_PER_CATEGORY |-> limit]

\* the configurations of the runs
Configs == {Config(MaxLines, TRUE, TRUE, 2), Config(MaxLines, FALSE, TRUE, 1),
            Config(MaxLines, TRUE, FALSE, 2)}

\* a row that holds an id and a title only
Entry(id) == [NoRow EXCEPT !.id = id, !.title = "t"]

\* a row of an earlier run
OldRow(id, at) ==
  [NoRow EXCEPT !.id = id, !.title = "Old", !.summary = "- Old one.", !.body = "- Old one.",
                !.ai_summary = "", !.scraped_body = "", !.url = "u0", !.category = "IT",
                !.fetched_at = at, !.archived_at = at]

File(ex, lines) == [exists |-> ex, lines |-> lines]

\* the archives a behaviour starts from: no two records of one share an id
Archives ==
  {File(FALSE, <<>>),
   File(TRUE, <<>>),
   File(TRUE, <<RecordLine(OldRow("a", "T0"))>>),
   File(TRUE, <<BlankLine, RecordLine(OldRow("b", "T0")), MalformedLine>>),
   File(TRUE, <<RecordLine(OldRow("a", "T0")), NonObjectLine>>),
   File(TRUE, <<RecordLine(Entry(None)), RecordLine(OldRow(" b ", "")), RecordLine(Entry(""))>>)}

\* what a behaviour starts from: an archive and no export, or, as in a fresh
\* checkout, no archive and the export an earlier run produced
Starts ==
  {[archive |-> a, out_exists |-> FALSE, out_rows |-> <<>>] : a \in Archives}
  \cup {[archive |-> File(FALSE, <<>>), out_exists |-> TRUE,
          out_rows |-> <<[NoRow EXCEPT !.id = "a", !.title = "Old", !.fetched_at = "T0"]>>]}

\* the batches append_entries is called with
Batches ==
  {<<>>,
   <<Entry("a")>>, <<Entry(" a")>>,
   <<Entry("a"), Entry("a")>>,
   <<Entry("c"), Entry(""), Entry(None), Entry("b"), Entry("c")>>}

Article(title, url, description, content, publishedAt) ==
  [title |-> title, url |-> url, description |-> description, content |-> content,
   publishedAt |-> publishedAt]

A1 == Article("Ai chip", "u1", "Chip out. Big win", "", "P1")
A2 == Article(" AI  Chip", "u2", "", "Chip again", "P2")
A3 == Article("Jobs", " u3", "", "More jobs~ login", "P1")
A4 == Article("No link", "", "x", "y", "P1")

\* what fetch_news returns when it returns
ArticleLists == {<<>>, <<A4, A3, A1, A2>>}

Failures == {"HTTPError", "URLError", "RuntimeError"}

\* the outcomes of a call of fetch_news: it raises or returns a list
FetchOutcomes ==
  [kind : Failures, articles : {<<>>}] \cup [kind : {"ok"}, articles : ArticleLists]

\* the world of a run of main: what fetch_article_body returns for a url and
\* what the reasoning service answers for the article of that url
Worlds ==
  {[page |-> [u \in {"u1", "u2", "u3"} |-> ""],
    resp |-> [u \in {"u1", "u2", "u3"} |-> Raises]],
   [page |-> [u \in {"u1", "u2", "u3"} |-> IF u = "u1" THEN "Chip sells.\nmenu" ELSE ""],
    resp |-> [u \in {"u1", "u2", "u3"} |-> IF u = "u1" THEN Text("^^: chip\n- ok") ELSE Text("...")]]}

\* no invocation of fetch_news yet
NoOutcome == [kind |-> "none", articles |-> <<>>]

NoFetch == [status |-> "idle", label |-> "", attempt |-> 0, calls |-> 0,
            outcome |-> NoOutcome, ret |-> <<>>]
\* failed: the labels of the calls of safe_fetch_news that used up their attempts
NoGot  == [it |-> <<>>, job |-> <<>>, failed |-> {}]
\* what a run of main went through: the candidates it had after its two
\* fetches, the fetches that failed, and the articles it processed (one call
\* of fetch_article_body and one of build_ai_summary each), in this order
NoRun  == [it |-> <<>>, job |-> <<>>, failed |-> {}, processed |-> <<>>]
NoLast == [op |-> "none", entries |-> <<>>, before |-> File(FALSE, <<>>),
           raised |-> FALSE, ret |-> 0, run |-> NoRun]
NoText == [fn |-> "none"]
\* no call of fetch_news, no call of fetch_article_body
NoNews == [status |-> "off"]
NoBody == [status |-> "off"]
\* no concurrent call of append_entries
NoWriters == <<>>

vars == <<cfg, exists, archive, out_exists, out_rows, nops, pc, f, got, last, tin, tout, tpc, news, fab, wr>>

Init ==
  /\ cfg \in Configs
  /\ \E s \in Starts : /\ exists = s.archive.exists
                        /\ archive = s.archive.lines
                        /\ out_exists = s.out_exists
                        /\ out_rows = s.out_rows
  /\ nops = 0
  /\ wr = NoWriters
  /\ pc = "idle"
  /\ f = NoFetch
  /\ got = NoGot
  /\ last = NoLast
  /\ tin = NoText
  /\ tout = NoText
  /\ tpc = "off"
  /\ news = NoNews
  /\ fab = NoBody

\* a call append_entries(ARCHIVE_PATH, entries)
AppendEntries(entries) ==
  /\ pc = "idle"
  /\ nops < MaxOps
  /\ nops' = nops + 1
  /\ \E r \in {append_entries(exists, archive, entries)} :
         /\ exists' = r.exists
         /\ archive' = r.lines
         /\ last' = [op |-> "append_entries", entries |-> entries,
                     before |-> File(exists, archive), raised |-> r.raised, ret |-> r.added,
                     run |-> NoRun]
  /\ UNCHANGED <<cfg, out_exists, out_rows, pc, f, got, tin, tout, tpc, news, fab, wr>>

\* safe_fetch_news entered: last_err = None and the loop at attempt 1
CallFetch(label) == [status |-> "running", label |-> label, attempt |-> 1, calls |-> 0,
                     outcome |-> NoOutcome, ret |-> <<>>]

\* main up to its first call of safe_fetch_news
MainStart ==
  /\ pc = "idle"
  /\ nops < MaxOps
  /\ nops' = nops + 1
  /\ IF ~cfg.NEWSAPI_KEY
     THEN /\ last' = [op |-> "main", entries |-> <<>>, before |-> File(exists, archive),
                      raised |-> FALSE, ret |-> 1, run |-> NoRun]
          /\ UNCHANGED <<pc, f>>
     ELSE /\ pc' = "fetch_it"
          /\ f' = CallFetch("IT")
          /\ UNCHANGED last
  /\ UNCHANGED <<cfg, exists, archive, out_exists, out_rows, got, tin, tout, tpc, news, fab, wr>>

\* the except clause of safe_fetch_news that handles an exception of the
\* kind: every kind the model draws is an Exception
Handler(kind) ==
  IF kind = "HTTPError" THEN "except HTTPError"
  ELSE IF kind = "URLError" THEN "except URLError"
  ELSE "except Exception"

\* the handlers without the last clause
HandlerNoCatchAll(kind) ==
  IF kind = "HTTPError" THEN "except HTTPError"
  ELSE IF kind = "URLError" THEN "except URLError"
  ELSE "none"

\* one iteration of the loop with the except clauses H, fetch_news having
\* the outcome o, and the return that follows the last iteration
Iteration(o, H(_)) ==
  /\ f.status = "running"
  /\ f.attempt <= MAX_ATTEMPTS
  /\ f' = IF o.kind = "ok"
          THEN [f EXCEPT !.status = "returned", !.calls = @ + 1, !.outcome = o,
                         !.ret = o.articles]
          ELSE IF H(o.kind) = "none"
          THEN [f EXCEPT !.status = "raised", !.calls = @ + 1, !.outcome = o]
          ELSE IF f.attempt + 1 <= MAX_ATTEMPTS
          THEN [f EXCEPT !.attempt = @ + 1, !.calls = @ + 1, !.outcome = o]
          ELSE [f EXCEPT !.status = "returned", !.attempt = @ + 1, !.calls = @ + 1,
                         !.outcome = o, !.ret = <<>>]
  /\ UNCHANGED <<cfg, exists, archive, out_exists, out_rows, nops, pc, got, last, tin, tout, tpc, news, fab, wr>>

\* the iteration of a loop that has no clause for Exception
FetchAttemptNoCatchAll(o) == Iteration(o, HandlerNoCatchAll)

\* one iteration of the loop of safe_fetch_news
FetchAttempt(o) == Iteration(o, Handler)

\* main, line 801 done: it_articles set, the second call entered
MainGotIT ==
  /\ pc = "fetch_it"
  /\ f.status = "returned"
  /\ got' = [got EXCEPT !.it = unique_articles(f.ret, cfg.ITEM_LIMIT_PER_CATEGORY),
                         !.failed = IF f.outcome.kind # "ok" THEN @ \cup {"IT"} ELSE @]
  /\ f' = CallFetch("JOB")
  /\ pc' = "fetch_job"
  /\ UNCHANGED <<cfg, exists, archive, out_exists, out_rows, nops, last, tin, tout, tpc, news, fab, wr>>

\* main, line 802 done: job_articles set
MainGotJob ==
  /\ pc = "fetch_job"
  /\ f.status = "returned"
  /\ got' = [got EXCEPT !.job = unique_articles(f.ret, cfg.ITEM_LIMIT_PER_CATEGORY),
                         !.failed = IF f.outcome.kind # "ok" THEN @ \cup {"JOB"} ELSE @]
  /\ f' = NoFetch
  /\ pc' = "build"
  /\ UNCHANGED <<cfg, exists, archive, out_exists, out_rows, nops, last, tin, tout, tpc, news, fab, wr>>

\* the entries of main, each storing the url as the article has it and not
\* the stripped one its id is made of
main_entries_raw_url(w, now) ==
  MapSeq(MapSeq(got.it, LAMBDA a : <<a, "IT">>) \o MapSeq(got.job, LAMBDA a : <<a, "^^">>),
         LAMBDA e : [make_entry(e[1], e[2], w.page[Strip(e[1].url)], w.resp[Strip(e[1].url)], now)
                       EXCEPT !.url = e[1].url])

\* the entries main builds in the world w: those of it_articles, then those
\* of job_articles
main_entries(w, now) ==
  MapSeq(MapSeq(got.it, LAMBDA a : <<a, "IT">>) \o MapSeq(got.job, LAMBDA a : <<a, "^^">>),
         LAMBDA e : make_entry(e[1], e[2], w.page[Strip(e[1].url)], w.resp[Strip(e[1].url)], now))

\* main from line 804 to its end in the world w; early_return: whether the
\* test of line 804 is made
Finish(w, early_return) ==
  /\ pc = "build"
  /\ pc' = "idle"
  /\ got' = NoGot
  /\ IF early_return /\ got.it = <<>> /\ got.job = <<>>
     THEN /\ last' = [op |-> "main", entries |-> <<>>, before |-> File(exists, archive),
                      raised |-> FALSE, ret |-> 0,
                      run |-> [NoRun EXCEPT !.failed = got.failed]]
          /\ UNCHANGED <<exists, archive>>
     ELSE \E entries \in {main_entries(w, Stamp(nops))} :
          \E r \in {append_entries(exists, archive, entries)} :
              /\ exists' = r.exists
              /\ archive' = r.lines
              /\ last' = [op |-> "main", entries |-> entries,
                          before |-> File(exists, archive), raised |-> r.raised,
                          ret |-> IF r.raised THEN 1 ELSE 0,
                          run |-> [it |-> got.it, job |-> got.job, failed |-> got.failed,
                                   processed |-> got.it \o got.job]]
  /\ UNCHANGED <<cfg, out_exists, out_rows, nops, f, tin, tout, tpc, news, fab, wr>>

\* main without the early return of lines 804 to 807
MainFinishNoEarlyReturn(w) == Finish(w, FALSE)

\* main from line 804 to its end
MainFinish(w) == Finish(w, TRUE)

\* a run of build_data.py
BuildData ==
  /\ pc = "idle"
  /\ nops < MaxOps
  /\ nops' = nops + 1
  /\ \E r \in {build_data_main(exists, archive, out_exists, out_rows)} :
         /\ out_exists' = r.out_exists
         /\ out_rows' = r.out_rows
         /\ last' = [op |-> "build_data", entries |-> <<>>, before |-> File(exists, archive),
                     raised |-> r.raised, ret |-> r.ret, run |-> NoRun]
  /\ UNCHANGED <<cfg, exists, archive, pc, f, got, tin, tout, tpc, news, fab, wr>>

Next ==
  \/ \E entries \in Batches : AppendEntries(entries)
  \/ MainStart
  \/ \E o \in FetchOutcomes : FetchAttempt(o)
  \/ MainGotIT
  \/ MainGotJob
  \/ \E w \in Worlds : MainFinish(w)
  \/ BuildData

Spec == Init /\ [][Next]_vars

\* a call of safe_fetch_news runs on: the loop iteration that can be taken
\* is taken (fetch_news returns or raises: its requests have a timeout)
FairSpec == Spec /\ WF_vars(\E o \in FetchOutcomes : FetchAttempt(o))

(***************************************************************************)
(* The archive writer: claims C1 to C5                                     *)
(***************************************************************************)
\* the ids the records of a file carry, missing ones left out
StoredIds(lines) ==
  {lines[i].row.id : i \in {k \in 1..Len(lines) : lines[k].kind = "record"}} \ {None}

\* the records of a file that carry the id
CountId(lines, id) ==
  Cardinality({i \in 1..Len(lines) : lines[i].kind = "record" /\ lines[i].row.id = id})

IsPrefix(a, b) == Len(a) <= Len(b) /\ SubSeq(b, 1, Len(a)) = a

\* no line of the file is JSON that is no object (such lines are C5's)
Readable(lines) == \A i \in 1..Len(lines) : lines[i].kind # "nonobject"

\* the last call was append_entries with one entry whose id is not empty, on
\* an archive every line of which load_existing_ids reads or skips
SingleAppend ==
  /\ last.op = "append_entries"
  /\ Readable(last.before.lines)
  /\ Len(last.entries) = 1
  /\ last.entries[1].id \notin {"", None}

\* the step is the same call made once more, right after the first
SecondAppend ==
  /\ SingleAppend
  /\ AppendEntries(last.entries)

\* C1: a call append_entries(path, [entry]) with a non-empty id returns 1
\* when the id was not stored, and the same call made again right after it
\* returns 0, writes nothing and leaves exactly one record carrying the id.
\* (Stated for the archives without a non-object line; with one, the call
\* raises, which C5 is about.)
C1_IdempotentAppend ==
  [][/\ SingleAppend' /\ last'.entries[1].id \notin StoredIds(last'.before.lines)
        => ~last'.raised /\ last'.ret = 1
     /\ SecondAppend
        => /\ ~last'.raised
           /\ last'.ret = 0
           /\ archive' = archive
           /\ CountId(archive', last.entries[1].id) = 1]_vars

\* the entries of the last call that C2 says are written: those with an id
\* that is not empty, not stored before the call and not that of an earlier
\* entry of the batch
DueEntries ==
  LET es == last.entries
      Due(k) == /\ es[k].id \notin {"", None}
                /\ es[k].id \notin StoredIds(last.before.lines)
                /\ \A j \in 1..(k - 1) : es[j].id # es[k].id
      idx == {k \in 1..Len(es) : Due(k)}
  IN  MapSeq(SelectSeq([k \in 1..Len(es) |-> <<k, es[k]>>], LAMBDA e : e[1] \in idx),
             LAMBDA e : RecordLine(e[2]))

\* C2: a call of append_entries writes exactly the entries whose id is not
\* empty, not already stored and not that of an earlier entry of the batch,
\* and returns the number of records it appended.  (Stated for the archives
\* without a non-object line; with one, the call raises, which C5 is about.)
C2_WrittenIffNew ==
  (last.op = "append_entries" /\ Readable(last.before.lines))
    => /\ archive = last.before.lines \o DueEntries
       /\ last.ret = Len(DueEntries)

\* C3: every call of append_entries and every run of main leaves what the
\* archive held as a prefix of what it holds afterwards; the file, once
\* there, stays, and the number of its lines never decreases.
C3_AppendOnly ==
  [][/\ IsPrefix(archive, archive')
     /\ Len(archive') >= Len(archive)
     /\ (exists => exists')]_vars

\* a run of main has appended records to an archive that held some
C3_Witness ==
  /\ last.op = "main"
  /\ ~last.raised
  /\ Len(last.before.lines) > 0
  /\ Len(archive) > Len(last.before.lines)
  /\ IsPrefix(last.before.lines, archive)

\* C4: no two records of the archive share an id (the archives the
\* behaviours start from are such).
C4_UniqueIds ==
  \A i, j \in 1..Len(archive) :
    (i < j /\ archive[i].kind = "record" /\ archive[j].kind = "record")
      => archive[i].row.id # archive[j].row.id

\* C5: whatever blank, unparseable or non-object lines the archive holds,
\* load_existing_ids returns the non-empty ids of its records (as it reads
\* them: without the white space around them), no call of append_entries
\* and no run of main or of the export raises, and the export holds one row
\* for each record of the archive and none for any other line.
C5_BadLineNeverAborts ==
  last.op # "none"
    => /\ ~load_existing_ids(last.before.exists, last.before.lines).raised
       /\ load_existing_ids(last.before.exists, last.before.lines).ids
            = {Strip(id) : id \in StoredIds(last.before.lines)} \ {""}
       /\ ~last.raised
       /\ (last.op = "build_data" /\ last.before.exists)
            => /\ out_exists
               /\ Len(out_rows) = Len(SelectSeq(archive, LAMBDA ln : ln.kind = "record"))

(***************************************************************************)
(* The text functions, each applied once to arguments drawn at the start.  *)
(***************************************************************************)
\* the longest list of paragraphs filter_article_paragraphs is applied to
MaxParagraphs == 2

\* paragraphs: kept ones, noise of each kind, and ones clean_text changes
PARAGRAPHS ==
  {"Chip sales rise again.", "Jobs  grow &amp; pay is up",
   "login to read more", "short", "$$ kana text here", "By: Kim in Seoul",
   "mail kim@news.co now", "call 02-123-4567 now", " ", "- login  now ",
   "see http://a.b/c"}

RECURSIVE SeqsUpTo(_, _)
\* the sequences over S of length 1 to n
SeqsUpTo(S, n) ==
  IF n = 0 THEN {}
  ELSE LET shorter == SeqsUpTo(S, n - 1)
       IN  {<<x>> : x \in S} \cup shorter \cup {Append(q, x) : q \in shorter, x \in S}

TITLES       == {"", "Ai chip"}
DESCRIPTIONS == {"", "Chip out. Big win!"}
BODIES       == {"", "  ", "...", "Ai chip sells~\nlogin now\nmenu", "- Home\nChip is out"}
LONG_BODIES  == BODIES \cup {"A b. C d! E f? G h~ I j"}

\* what the first stage may get
RESPONSES_A == {Raises, Text(" "), Text("Chip sells. All well")}
\* what the second stage, or the one call of build_ai_summary, may get
RESPONSES_B == {Raises, Text(""), Text("..."), Text("- one\n two \n- three."),
                Text("One\nTwo\nThree")}

BULLET_TEXTS == {"", " \n ", "- a\n- b\n- c", "plain one\nplain two\nthree", "-\n - \n",
                 "- x~\n* y\n  - z!", "-- dash"}

\* rows of the archive as the export may find them
EXPORT_ROWS ==
  {[OldRow("a", "T0") EXCEPT !.ai_summary = x] :
     x \in {None, "", "  ", "&#32;", "=", "^^: chip\n- ok", "..."}}
  \cup {[OldRow("b", "") EXCEPT !.summary = "Chip out. Big win", !.body = y] :
          y \in {None, "", "Body text"}}
  \cup {[OldRow("c", "T0") EXCEPT !.summary = x, !.body = x, !.scraped_body = y] :
          x \in {"", "- Chip out.\nBig win"},
          y \in {"", "Chip sells\nmenu", "Chip sells. Menu",
                 "A. B. C. D. E. F. G. H. I. J. K. L. M. N. O. P. Q. R. S. T. U. V. W. X. Y. Z."}}

\* the articles main is given one at a time: those of the runs, ones whose
\* description or content is a character reference escaped twice, and one
\* with neither
ARTICLES == {A1, A2, A3, Article("Ai chip", "u1", "&amp;#32;", "", "P1"),
             Article("Ai chip", "u1", "Chip out. Big win", "&amp;#32;", "P1"),
             Article("Ai chip", "u1", "", "", "P1")}

\* what fetch_article_body returns for the url of the article
EXTRACTED == {"", "Chip sells.\nmenu"}

\* the longest list of candidates and the largest ITEM_LIMIT_PER_CATEGORY of
\* the applications of unique_articles
MaxArticles == 3
MaxLimit == 2

\* candidates: the same title with two urls, the title in another case and
\* spacing, a url of white space and a title of white space
CANDIDATES ==
  {A1, A2, A3, Article("Ai chip", "u6", "", "", "P2"), Article("Jobs", " ", "", "", "P1"),
   Article("  ", "u7", "", "", "P1")}

\* the applications a behaviour starts with: the configuration and the call
TextCalls ==
  {[cfg |-> Config(1, FALSE, FALSE, 1),
    call |-> [fn |-> "filter_article_paragraphs", paragraphs |-> ps]] :
     ps \in SeqsUpTo(PARAGRAPHS, MaxParagraphs)}
  \cup {[cfg |-> Config(n, key, FALSE, 1),
         call |-> [fn |-> "summarize", title |-> t, description |-> d, content |-> c,
                   respA |-> ra, respB |-> rb]] :
          n \in 1..MaxLines, key \in BOOLEAN, t \in TITLES, d \in DESCRIPTIONS, c \in BODIES,
          ra \in RESPONSES_A, rb \in RESPONSES_B}
  \cup {[cfg |-> Config(n, FALSE, FALSE, 1),
         call |-> [fn |-> "local_summary", title |-> t, description |-> d, content |-> c]] :
          n \in 1..MaxLines, t \in TITLES, d \in DESCRIPTIONS, c \in LONG_BODIES}
  \cup {[cfg |-> Config(n, FALSE, FALSE, 1),
         call |-> [fn |-> "normalize_bullet_output", text |-> x]] :
          n \in 1..MaxLines, x \in BULLET_TEXTS}
  \cup {[cfg |-> Config(1, key, FALSE, 1),
         call |-> [fn |-> "build_ai_summary", title |-> t, description |-> d,
                   body_text |-> c, resp |-> r]] :
          key \in BOOLEAN, t \in TITLES, d \in DESCRIPTIONS, c \in BODIES, r \in RESPONSES_B}
  \cup {[cfg |-> Config(1, FALSE, FALSE, 1), call |-> [fn |-> "export_row", row |-> r]] :
          r \in EXPORT_ROWS}
  \cup {[cfg |-> Config(1, FALSE, TRUE, 1),
         call |-> [fn |-> "make_entry", a |-> a, extracted |-> x]] :
          a \in ARTICLES, x \in EXTRACTED}
  \cup {[cfg |-> Config(1, FALSE, FALSE, limit),
         call |-> [fn |-> "unique_articles", articles |-> as]] :
          limit \in 1..MaxLimit, as \in {<<>>} \cup SeqsUpTo(CANDIDATES, MaxArticles)}

InitText ==
  /\ \E c \in TextCalls : cfg = c.cfg /\ tin = c.call
  /\ tout = NoText
  /\ tpc = "start"
  /\ exists = FALSE
  /\ archive = <<>>
  /\ out_exists = FALSE
  /\ out_rows = <<>>
  /\ nops = 0
  /\ wr = NoWriters
  /\ pc = "off"
  /\ f = NoFetch
  /\ got = NoGot
  /\ last = NoLast
  /\ news = NoNews
  /\ fab = NoBody

\* the application returns v
Returns(v) ==
  /\ tout' = v
  /\ tpc' = "done"
  /\ UNCHANGED <<cfg, exists, archive, out_exists, out_rows, nops, pc, f, got, last, tin, news, fab, wr>>

FilterArticleParagraphs ==
  /\ tpc = "start" /\ tin.fn = "filter_article_paragraphs"
  /\ Returns([ret |-> filter_article_paragraphs(tin.paragraphs)])

Summarize ==
  /\ tpc = "start" /\ tin.fn = "summarize"
  /\ Returns(summarize(tin.title, tin.description, tin.content, tin.respA, tin.respB))

LocalSummary ==
  /\ tpc = "start" /\ tin.fn = "local_summary"
  /\ Returns([ret |-> local_summary(tin.title, tin.description, tin.content)])

NormalizeBulletOutput ==
  /\ tpc = "start" /\ tin.fn = "normalize_bullet_output"
  /\ Returns([ret |-> normalize_bullet_output(tin.text)])

BuildAiSummary ==
  /\ tpc = "start" /\ tin.fn = "build_ai_summary"
  /\ Returns(build_ai_summary(tin.title, tin.description, tin.body_text, tin.resp))

\* the export's loop body on one record
ExportRow ==
  /\ tpc = "start" /\ tin.fn = "export_row"
  /\ Returns([ret |-> export_row(tin.row)])

\* the body of the loop of main (lines 812 to 842) on one article
MakeEntry ==
  /\ tpc = "start" /\ tin.fn = "make_entry"
  /\ Returns([ret |-> make_entry(tin.a, "IT", tin.extracted, Raises, Stamp(1))])

\* unique_articles on a list of candidates, with the limit of the configuration
UniqueArticles ==
  /\ tpc = "start" /\ tin.fn = "unique_articles"
  /\ Returns([ret |-> unique_articles(tin.articles, cfg.ITEM_LIMIT_PER_CATEGORY)])

NextText ==
  \/ FilterArticleParagraphs
  \/ Summarize
  \/ LocalSummary
  \/ NormalizeBulletOutput
  \/ BuildAiSummary
  \/ ExportRow
  \/ MakeEntry
  \/ UniqueArticles

SpecText == InitText /\ [][NextText]_vars

(***************************************************************************)
(* The noise filter and the summarizers: claims C6 to C9                   *)
(***************************************************************************)
Applied(fn) == tpc = "done" /\ tin.fn = fn

\* the filter drops the paragraph: it is empty once cleaned, holds kana, is
\* shorter than the minimum or matches a noise pattern
Dropped(p) ==
  LET line == clean_text(p)
  IN  line = "" \/ HasKana(line) \/ Len(line) < MIN_PARAGRAPH_LEN \/ IsNoise(line)

\* C6: applied to a non-empty list of paragraphs, filter_article_paragraphs
\* never returns the empty list, and when it drops every paragraph as noise
\* it returns the paragraphs it was given, unchanged.
C6_NoiseFilterSafety ==
  (Applied("filter_article_paragraphs") /\ tin.paragraphs # <<>>)
    => /\ tout.ret # <<>>
       /\ (\A i \in 1..Len(tin.paragraphs) : Dropped(tin.paragraphs[i]))
            => tout.ret = tin.paragraphs

\* the paragraphs as clean_text leaves them, without the empty ones
Cleaned(ps) == SelectSeq(MapSeq(ps, clean_text), LAMBDA x : x # "")

\* C6, amended: when filter_article_paragraphs drops every paragraph of a
\* non-empty list as noise, it returns the paragraphs as clean_text leaves
\* them, in their order and without those that clean to the empty string;
\* and its result is empty only when every paragraph cleans to the empty
\* string.
C6_NoiseFilterFallback ==
  (Applied("filter_article_paragraphs") /\ tin.paragraphs # <<>>)
    => /\ (\A i \in 1..Len(tin.paragraphs) : Dropped(tin.paragraphs[i]))
            => tout.ret = Cleaned(tin.paragraphs)
       /\ tout.ret = <<>> <=> Cleaned(tin.paragraphs) = <<>>

\* every paragraph was dropped as noise, and what the filter returned is not
\* empty and not what it was given
C6_Witness ==
  /\ Applied("filter_article_paragraphs")
  /\ \A i \in 1..Len(tin.paragraphs) : Dropped(tin.paragraphs[i])
  /\ tout.ret # <<>>
  /\ tout.ret # tin.paragraphs
  /\ Len(tout.ret) < Len(tin.paragraphs)

\* C7: build_ai_summary returns a non-empty string whatever the reasoning
\* call does; when the filtered source holds no readable character it
\* returns the sentinel and makes no call; and the ai_summary of an exported
\* row is not empty.
C7_AiSummaryNonEmpty ==
  /\ Applied("build_ai_summary")
       => /\ tout.ret # ""
          /\ ~_has_readable_content(
                minimal_context_filter(tin.title, tin.description, tin.body_text))
               => (tout.ret = SENTINEL /\ tout.calls = NoCall)
  /\ Applied("export_row") => tout.ret.ai_summary # ""

\* the reasoning call answered a readable source with a text that holds no
\* readable character, and build_ai_summary returned the sentinel
C7_Witness ==
  /\ Applied("build_ai_summary")
  /\ cfg.OPENAI_API_KEY
  /\ _has_readable_content(minimal_context_filter(tin.title, tin.description, tin.body_text))
  /\ tin.resp.kind = "text"
  /\ ~_has_readable_content(tin.resp.text)
  /\ tout.calls = <<"S">>
  /\ tout.ret = SENTINEL

C9_SummarizerDegradation ==
  Applied("summarize")
    => LET src  == minimal_context_filter(tin.title, tin.description, tin.content)
           okA  == tin.respA.kind = "text" /\ clean_text(Strip(tin.respA.text)) # ""
           okB  == tin.respB.kind = "text" /\ normalize_bullet_output(Strip(tin.respB.text)) # ""
           Local(text) == local_summary(tin.title, tin.description, text)
       IN  /\ ~tout.raised
           /\ tout.ret =
                IF src = "" THEN Local(tin.content)
                ELSE IF ~cfg.OPENAI_API_KEY \/ ~okA THEN Local(src)
                ELSE IF tin.respB.kind = "raise" THEN Local(src)
                ELSE IF okB THEN normalize_bullet_output(Strip(tin.respB.text))
                ELSE Local(clean_text(Strip(tin.respA.text)))

\* the first stage answered and the second raised: summarize returned the
\* local summary of the filtered source
C9_Witness ==
  /\ Applied("summarize")
  /\ cfg.OPENAI_API_KEY
  /\ tin.respA.kind = "text"
  /\ tin.respB.kind = "raise"
  /\ tout.calls = <<"A", "B">>
  /\ ~tout.raised
  /\ tout.ret # ""
  /\ tout.ret = local_summary(tin.title, tin.description,
                              minimal_context_filter(tin.title, tin.description, tin.content))

(***************************************************************************)
(* The retry loop: claim C10                                               *)
(***************************************************************************)
\* what holds of a call of safe_fetch_news at every moment
RetrySafe ==
  /\ f.calls <= 3
  /\ f.status # "raised"
  /\ (f.status = "running" /\ f.calls > 0) => f.outcome.kind \in Failures
  /\ f.status = "returned"
       => \/ f.outcome.kind = "ok" /\ f.ret = f.outcome.articles
          \/ f.outcome.kind \in Failures /\ f.calls = 3 /\ f.ret = <<>>

\* C10: safe_fetch_news invokes fetch_news at most 3 times; it goes on only
\* after a failed attempt and returns what the first successful attempt
\* returned; after 3 failed attempts it returns the empty list; no failure
\* of an attempt makes it raise; and a call that was entered returns.
C10_RetryPolicy ==
  /\ []RetrySafe
  /\ (f.status = "running") ~> (f.status = "returned")

\* three attempts failed, the last with the API's status error, and the call
\* returned the empty list
C10_Witness ==
  /\ f.status = "returned"
  /\ f.calls = 3
  /\ f.outcome.kind = "RuntimeError"
  /\ f.ret = <<>>

(***************************************************************************)
(* fetch_news: one call, one request of the loop at a time                 *)
(***************************************************************************)
Max2(a, b) == IF a >= b THEN a ELSE b
Min2(a, b) == IF a <= b THEN a ELSE b

\* NEWS_PAGE_SIZE and MAX_NEWS_PAGES, from the values of the environment
NEWS_PAGE_SIZE(env) == Max2(20, Min2(100, env))
MAX_NEWS_PAGES(env) == Max2(1, env)

\* the values the environment gives the two settings
PageSizeEnvs == {1, 22}
MaxPagesEnvs == {0, 2, 3}

\* the configurations of the calls of fetch_news
NewsConfigs ==
  {[MAX_SUMMARY_LINES |-> 1, OPENAI_API_KEY |-> FALSE, NEWSAPI_KEY |-> TRUE,
    ITEM_LIMIT_PER_CATEGORY |-> 1,
    NEWS_PAGE_SIZE |-> NEWS_PAGE_SIZE(e), MAX_NEWS_PAGES |-> MAX_NEWS_PAGES(m)] :
     e \in PageSizeEnvs, m \in MaxPagesEnvs}

\* it_query and job_query of main
QUERIES == {"(AI OR IT)", "(^^ OR ^^)"}

\* n articles of a page: the k-th article of page p is <<p, k>>
Items(p, n) == [k \in 1..n |-> <<p, k>>]

\* what http_json does for the request of page p: it raises, or returns the
\* decoded document, whose status is "ok" or not
PageOutcomes(p, size) ==
  [kind : {"HTTPError", "URLError"}, status : {""}, articles : {<<>>}]
  \cup {[kind |-> "json", status |-> "error", articles |-> <<>>]}
  \cup {[kind |-> "json", status |-> "ok", articles |-> Items(p, n)] :
          n \in {0, 1, size - 1, size, size + 1}}

\* the request of a page: the parameters of the url
Params(query, size, page) == [q |-> query, pageSize |-> size, page |-> page]

\* the loop of fetch_news that goes on after a page shorter than the page size
fetch_news_page_no_break(n, o) ==
  LET asked == [n EXCEPT !.requests = Append(@, Params(n.query, cfg.NEWS_PAGE_SIZE, n.page)),
                         !.responses = Append(@, o)]
  IN  IF o.kind # "json" THEN [asked EXCEPT !.status = "raised", !.error = o.kind]
      ELSE IF o.status # "ok" THEN [asked EXCEPT !.status = "raised", !.error = "RuntimeError"]
      ELSE IF o.articles = <<>> THEN [asked EXCEPT !.status = "exit"]
      ELSE [asked EXCEPT !.all_articles = @ \o o.articles,
                         !.page = @ + 1,
                         !.status = IF n.page + 1 > cfg.MAX_NEWS_PAGES
                                    THEN "exit" ELSE "running"]

\* one iteration of the loop of fetch_news, lines 680 to 701, in the call n,
\* http_json having the outcome o: the call afterwards
fetch_news_page(n, o) ==
  LET asked == [n EXCEPT !.requests = Append(@, Params(n.query, cfg.NEWS_PAGE_SIZE, n.page)),
                         !.responses = Append(@, o)]
  IN  IF o.kind # "json" THEN [asked EXCEPT !.status = "raised", !.error = o.kind]
      ELSE IF o.status # "ok" THEN [asked EXCEPT !.status = "raised", !.error = "RuntimeError"]
      ELSE IF o.articles = <<>> THEN [asked EXCEPT !.status = "exit"]
      ELSE [asked EXCEPT !.all_articles = @ \o o.articles,
                         !.page = @ + 1,
                         !.status = IF Len(o.articles) < cfg.NEWS_PAGE_SIZE
                                       \/ n.page + 1 > cfg.MAX_NEWS_PAGES
                                    THEN "exit" ELSE "running"]

\* fetch_news(from_date, to_date, query) entered: line 679 done, the loop at
\* page 1 (MAX_NEWS_PAGES is at least 1)
NewsCall(query) ==
  [status |-> "running", query |-> query, page |-> 1, all_articles |-> <<>>,
   requests |-> <<>>, responses |-> <<>>, error |-> "", ret |-> <<>>]

InitNews ==
  /\ cfg \in NewsConfigs
  /\ news \in {NewsCall(q) : q \in QUERIES}
  /\ fab = NoBody
  /\ tin = NoText
  /\ tout = NoText
  /\ tpc = "off"
  /\ exists = FALSE
  /\ archive = <<>>
  /\ out_exists = FALSE
  /\ out_rows = <<>>
  /\ nops = 0
  /\ wr = NoWriters
  /\ pc = "off"
  /\ f = NoFetch
  /\ got = NoGot
  /\ last = NoLast

\* one request of the loop
FetchNewsPage(o) ==
  /\ news.status = "running"
  /\ news' = fetch_news_page(news, o)
  /\ UNCHANGED <<cfg, exists, archive, out_exists, out_rows, nops, pc, f, got, last,
                 tin, tout, tpc, fab, wr>>

\* line 702, after a break or after the last page
FetchNewsReturn ==
  /\ news.status = "exit"
  /\ news' = [news EXCEPT !.status = "returned", !.ret = news.all_articles]
  /\ UNCHANGED <<cfg, exists, archive, out_exists, out_rows, nops, pc, f, got, last,
                 tin, tout, tpc, fab, wr>>

NextNews ==
  \/ \E o \in PageOutcomes(news.page, cfg.NEWS_PAGE_SIZE) : FetchNewsPage(o)
  \/ FetchNewsReturn

SpecNews == InitNews /\ [][NextNews]_vars

(***************************************************************************)
(* The article fetcher: claim C11                                          *)
(***************************************************************************)
RECURSIVE Concat(_)
\* the articles of the responses, in the order of the responses
Concat(responses) ==
  IF responses = <<>> THEN <<>> ELSE Head(responses).articles \o Concat(Tail(responses))

\* a response that lets the loop go on: status ok and a full page
FullPage(o) == o.kind = "json" /\ o.status = "ok" /\ Len(o.articles) >= cfg.NEWS_PAGE_SIZE

\* a response that makes the call fail
Failed(o) == o.kind # "json" \/ o.status # "ok"

\* C11: a call of fetch_news requests the pages 1, 2, ... in this order, each
\* with the query and the page size, never more than MAX_NEWS_PAGES of them;
\* every response but the last was a full page with status ok, so the call
\* stops right after the first page shorter than NEWS_PAGE_SIZE (an empty
\* one included) and not before; when it returns it returns the articles of
\* all the pages received, in page order; a response that is an error or
\* whose status is not ok makes the call raise and return nothing.
C11_Pagination ==
  news.status # "off" =>
    /\ Len(news.requests) <= cfg.MAX_NEWS_PAGES
    /\ Len(news.responses) = Len(news.requests)
    /\ \A i \in 1..Len(news.requests) :
         news.requests[i] = Params(news.query, cfg.NEWS_PAGE_SIZE, i)
    /\ \A i \in 1..(Len(news.responses) - 1) : FullPage(news.responses[i])
    /\ news.status = "running" =>
         /\ \A i \in 1..Len(news.responses) : FullPage(news.responses[i])
         /\ Len(news.requests) < cfg.MAX_NEWS_PAGES
         /\ news.page = Len(news.requests) + 1
    /\ news.status \in {"exit", "returned"} =>
         /\ news.responses # <<>>
         /\ ~Failed(news.responses[Len(news.responses)])
         /\ \/ ~FullPage(news.responses[Len(news.responses)])
            \/ Len(news.requests) = cfg.MAX_NEWS_PAGES
    /\ news.status = "returned" => news.ret = Concat(news.responses)
    /\ news.status = "raised" <=>
         (news.responses # <<>> /\ Failed(news.responses[Len(news.responses)]))
    /\ news.status = "raised" => news.ret = <<>>

\* a call that returned two pages, the second one short; and a call that
\* raised on its second page
C11_Witness ==
  /\ news.status = "returned"
  /\ Len(news.requests) = 2
  /\ cfg.MAX_NEWS_PAGES = 3
  /\ Len(news.responses[2].articles) = cfg.NEWS_PAGE_SIZE - 1
  /\ Len(news.ret) = 2 * cfg.NEWS_PAGE_SIZE - 1

(***************************************************************************)
(* The runs of main: claims C12 and C13                                    *)
(***************************************************************************)
\* the last run of main went through both fetches and on to line 804
Fetched == last.op = "main" /\ (last.ret = 0 \/ last.raised)

\* in the last run of main the fetch of one category used up its attempts
\* and the other returned at least one valid article
OneCategoryFailed ==
  /\ Fetched
  /\ \/ last.run.failed = {"IT"} /\ last.run.job # <<>>
     \/ last.run.failed = {"JOB"} /\ last.run.it # <<>>

\* C12: a run of main in which every fetch attempt of one category fails
\* and the other category's fetch returns at least one valid article
\* processes the articles of that category, leaves an entry for each of them
\* in the archive and returns 0, whichever category failed.
C12_CategoryIndependence ==
  OneCategoryFailed
    => /\ ~last.raised
       /\ last.ret = 0
       /\ last.run.processed = last.run.it \o last.run.job
       /\ Len(last.entries) = Len(last.run.processed)
       /\ \A i \in 1..Len(last.entries) : last.entries[i].id \in StoredIds(archive)

\* C13: a run of main that has no candidate left in either category, its
\* fetches having failed or returned nothing usable, writes nothing (the
\* archive holds what it held, and is not created), processes no article,
\* so calls neither fetch_article_body nor the reasoning service, and
\* returns 0.
C13_EmptyRunPreservesArchive ==
  [][(pc = "build" /\ got.it = <<>> /\ got.job = <<>> /\ pc' = "idle")
       => /\ exists' = exists
          /\ archive' = archive
          /\ last'.op = "main"
          /\ last'.entries = <<>>
          /\ last'.run.processed = <<>>
          /\ ~last'.raised
          /\ last'.ret = 0]_vars

\* a run has ended with no candidate, one fetch having failed, the archive
\* absent before and after
C13_Witness ==
  /\ last.op = "main"
  /\ cfg.NEWSAPI_KEY
  /\ pc = "idle"
  /\ last.ret = 0
  /\ last.entries = <<>>
  /\ last.run.failed # {}
  /\ ~last.before.exists
  /\ ~exists

(***************************************************************************)
(* Identifiers and the export: claims C18 to C20                           *)
(***************************************************************************)
\* the time stamps of the runs of the model
Stamps == {Stamp(n) : n \in 1..(MaxOps + 1)}

\* the rows main has written to the archive or built in its last run: main
\* alone stamps a row with the time of a run
MainRows ==
  {archive[i].row : i \in {k \in 1..Len(archive) :
                             archive[k].kind = "record" /\ archive[k].row.fetched_at \in Stamps}}
  \cup {last.entries[i] : i \in {k \in 1..Len(last.entries) : last.op = "main"}}

\* C18: the id main stores for an entry is make_id of the url, title and
\* published_at it stores for it, and two entries with the same three
\* values carry the same id, whatever run built them, at whatever time, on
\* whatever archive and in whatever configuration.
C18_IdDeterminism ==
  /\ \A r \in MainRows : r.id = make_id(r.url, r.title, r.published_at)
  /\ \A r1, r2 \in MainRows :
       (r1.url = r2.url /\ r1.title = r2.title /\ r1.published_at = r2.published_at)
         => r1.id = r2.id

\* a second run of main has built, at a later time and on a longer archive,
\* an entry for an article the first run archived: both carry the same id
C18_Witness ==
  /\ last.op = "main"
  /\ ~last.raised
  /\ \E i \in 1..Len(last.before.lines), j \in 1..Len(last.entries) :
       /\ last.before.lines[i].kind = "record"
       /\ last.before.lines[i].row.fetched_at \in Stamps
       /\ last.before.lines[i].row.fetched_at # last.entries[j].fetched_at
       /\ last.before.lines[i].row.url = " u3" \/ last.before.lines[i].row.url = "u3"
       /\ last.before.lines[i].row.id = last.entries[j].id

\* C19: a run of the export never changes the source archive; and when the
\* source is absent and an export exists, the run leaves the export as it
\* is and returns 0.
C19_ExportFrame ==
  [][(last'.op = "build_data" /\ nops' = nops + 1)
       => /\ exists' = exists
          /\ archive' = archive
          /\ (~exists /\ out_exists)
               => /\ out_exists'
                  /\ out_rows' = out_rows
                  /\ ~last'.raised
                  /\ last'.ret = 0]_vars

\* the export has run without a source and has kept the rows of the export
\* it found
C19_Witness ==
  /\ last.op = "build_data"
  /\ ~last.before.exists
  /\ ~exists
  /\ out_exists
  /\ out_rows # <<>>
  /\ last.ret = 0

\* the rows of an export are in descending order of their time stamps
Descending(rows) ==
  \A i \in 1..(Len(rows) - 1) : ~StrLess(sort_key(rows[i]), sort_key(rows[i + 1]))

\* how many times the row x occurs in rows
Count(rows, x) == Cardinality({i \in 1..Len(rows) : rows[i] = x})

\* C20: after a run of the export on an archive, the export holds exactly
\* one row for each record of the archive (the record's exported row, as
\* many times as the archive holds such a record) and its rows are in
\* descending order of fetched_at, or of archived_at where fetched_at is
\* missing.
C20_ExportOrdering ==
  (last.op = "build_data" /\ last.before.exists)
    => /\ out_exists
       /\ LET rows == MapSeq(SelectSeq(archive, LAMBDA ln : ln.kind = "record"),
                             LAMBDA ln : export_row(ln.row))
          IN  /\ Len(out_rows) = Len(rows)
              /\ \A i \in 1..Len(rows) : Count(out_rows, rows[i]) = Count(rows, rows[i])
       /\ Descending(out_rows)

(***************************************************************************)
(* The HTML body extractors.  A document is the sequence of the events     *)
(* HTMLParser.feed calls the handlers with: start tags (a void element     *)
(* such as <br> or <img> gives a start tag and no end tag), end tags, text *)
(* and comments.  Tags arrive in lower case.                               *)
(***************************************************************************)
\* the attributes the extractors read: itemprop and id, "" when absent
Attrs(itemprop, id) == [itemprop |-> itemprop, id |-> id]
NoAttrs == Attrs("", "")

StartTag(tag, attrs) == [ev |-> "start", tag |-> tag, attrs |-> attrs, data |-> ""]
EndTag(tag)          == [ev |-> "end", tag |-> tag, attrs |-> NoAttrs, data |-> ""]
Data(data)           == [ev |-> "data", tag |-> "", attrs |-> NoAttrs, data |-> data]
Comment(data)        == [ev |-> "comment", tag |-> "", attrs |-> NoAttrs, data |-> data]

\* self.skip_tags of PriorityPExtractor and of BodyPExtractor
skip_tags == {"script", "style", "noscript", "iframe", "svg"}

\* self.skip_tags of ArticleBodyInnerTextExtractor
skip_tags_inner == skip_tags \cup {"img"}

\* the default of MAX_SOURCE_CHARS
MAX_SOURCE_CHARS == 16000

\* text[:MAX_SOURCE_CHARS]
Clip(text) == SubSeq(text, 1, Min2(Len(text), MAX_SOURCE_CHARS))

\* the marker of handle_comment, four Hangul syllables
ARTICLE_MARK == "^^^^"

RECURSIVE RemoveSpaces(_)
\* s.replace(" ", "")
RemoveSpaces(s) ==
  IF s = "" THEN ""
  ELSE IF Head(s) = " " THEN RemoveSpaces(Tail(s))
  ELSE SubSeq(s, 1, 1) \o RemoveSpaces(Tail(s))

\* the greatest element of a set of positive numbers, 0 for the empty set
Greatest(S) == IF S = {} THEN 0 ELSE CHOOSE i \in S : \A j \in S : j <= i

\* candidates[0][1] without the sort: the first candidate
FirstCandidate(candidates) == candidates[1]

\* candidates.sort(key=lambda x: -x[0]); candidates[0][1]: the first of the
\* longest candidates
Longest(candidates) ==
  candidates[Least({i \in 1..Len(candidates) :
                      \A j \in 1..Len(candidates) : Len(candidates[j]) <= Len(candidates[i])})]

_is_step1_target(tag, attrs) ==
  /\ tag \in {"div", "article"}
  /\ \/ Lower(Strip(attrs.itemprop)) = "articlebody"
     \/ Lower(Strip(attrs.id)) = "articlebody"

\* PriorityPExtractor(): p_open is FALSE where current_p_parts is None
PriorityPExtractor ==
  [skip_depth |-> 0, pending_article_comment |-> FALSE, container_stack |-> <<>>,
   p_open |-> FALSE, current_p_parts |-> <<>>,
   candidates_step1 |-> <<>>, candidates_step2 |-> <<>>]

\* a node of container_stack (the lists of a node of step 0 are never read)
Node(tag, step) == [tag |-> tag, step |-> step, paragraphs |-> <<>>, text_parts |-> <<>>]

\* _current_target: the index of the innermost node of step 1 or 2, 0 for None
_current_target(stack) == Greatest({i \in 1..Len(stack) : stack[i].step \in {1, 2}})

Priority_handle_starttag(p, tag, attrs) ==
  LET Pushed(step, stack) ==
        [p EXCEPT !.container_stack = stack,
                  !.pending_article_comment = IF step = 2 THEN FALSE ELSE @,
                  !.p_open = IF tag = "p" /\ _current_target(stack) # 0 THEN TRUE ELSE @,
                  !.current_p_parts = IF tag = "p" /\ _current_target(stack) # 0 THEN <<>> ELSE @]
      Push(step) == Pushed(step, Append(p.container_stack, Node(tag, step)))
      Depth(d) ==
        IF d > 0 THEN [p EXCEPT !.skip_depth = d]
        ELSE IF _is_step1_target(tag, attrs) THEN Push(1)
        ELSE IF tag \in {"section", "div"} /\ p.pending_article_comment THEN Push(2)
        ELSE Push(0)
  IN  Depth(p.skip_depth + (IF tag \in skip_tags THEN 1 ELSE 0))

\* lines 483 to 487: the text of the candidate a container gives, "" for none
container_text(node) ==
  LET Base(raw_lines) == IF node.paragraphs # <<>> THEN node.paragraphs ELSE raw_lines
  IN  Clip(Join(filter_article_paragraphs(
                  Base(SelectSeq(MapSeq(SplitLines(normalize_inner_text(Join(node.text_parts, " "))),
                                        clean_text),
                                 LAMBDA x : x # ""))), "\n"))

Priority_handle_endtag(p, tag) ==
  LET \* lines 472 to 477
      Closed(q, target, para) ==
        [q EXCEPT !.container_stack =
                    IF para # "" /\ target # 0
                    THEN [@ EXCEPT ![target].paragraphs = Append(@, para)] ELSE @,
                  !.p_open = FALSE,
                  !.current_p_parts = <<>>]
      EndP(q) ==
        IF tag = "p" /\ q.p_open
        THEN Closed(q, _current_target(q.container_stack),
                    normalize_inner_text(Join(q.current_p_parts, " ")))
        ELSE q
      \* lines 481 to 492
      Candidate(q, node, text) ==
        IF node.step = 1 /\ text # "" THEN [q EXCEPT !.candidates_step1 = Append(@, text)]
        ELSE IF node.step = 2 /\ text # "" THEN [q EXCEPT !.candidates_step2 = Append(@, text)]
        ELSE q
      Pop(q, node) ==
        Candidate([q EXCEPT !.container_stack = SubSeq(@, 1, Len(@) - 1)], node,
                  IF node.step \in {1, 2} THEN container_text(node) ELSE "")
      Popped(q) ==
        IF q.container_stack = <<>> THEN q
        ELSE Pop(q, q.container_stack[Len(q.container_stack)])
  IN  IF tag \in skip_tags /\ p.skip_depth > 0 THEN [p EXCEPT !.skip_depth = @ - 1]
      ELSE IF p.skip_depth > 0 THEN p
      ELSE Popped(EndP(p))

Priority_handle_data(p, data) ==
  LET Raw(q, target, raw) ==
        IF target # 0 /\ raw # ""
        THEN [q EXCEPT !.container_stack[target].text_parts = Append(@, raw)] ELSE q
      Target(q, target) ==
        IF target = 0 THEN q ELSE Raw(q, target, normalize_inner_text(data))
      Part(q, txt) == IF txt # "" THEN [q EXCEPT !.current_p_parts = Append(@, txt)] ELSE q
      InP(q) == IF ~q.p_open THEN q ELSE Part(q, clean_text(data))
  IN  IF p.skip_depth > 0 THEN p
      ELSE InP(Target(p, _current_target(p.container_stack)))

Priority_handle_comment(p, data) ==
  IF Contains(RemoveSpaces(clean_text(data)), ARTICLE_MARK)
  THEN [p EXCEPT !.pending_article_comment = TRUE]
  ELSE p

\* the handler HTMLParser calls PriorityPExtractor with for an event
Priority_handle(p, e) ==
  IF e.ev = "start" THEN Priority_handle_starttag(p, Lower(e.tag), e.attrs)
  ELSE IF e.ev = "end" THEN Priority_handle_endtag(p, Lower(e.tag))
  ELSE IF e.ev = "data" THEN Priority_handle_data(p, e.data)
  ELSE Priority_handle_comment(p, e.data)

\* extract_priority_p_text preferring the comment-anchored candidates
priority_result_step2_first(p) ==
  IF p.candidates_step2 # <<>> THEN Longest(p.candidates_step2)
  ELSE IF p.candidates_step1 # <<>> THEN Longest(p.candidates_step1)
  ELSE ""

\* lines 531 to 537 of extract_priority_p_text, p being the parser fed
priority_result(p) ==
  IF p.candidates_step1 # <<>> THEN Longest(p.candidates_step1)
  ELSE IF p.candidates_step2 # <<>> THEN Longest(p.candidates_step2)
  ELSE ""

\* BodyPExtractor()
BodyPExtractor ==
  [in_body |-> FALSE, skip_depth |-> 0, in_p |-> FALSE, current_p_parts |-> <<>>,
   paragraphs |-> <<>>, body_text_parts |-> <<>>]

BodyP_handle_starttag(p, tag, attrs) ==
  IF tag = "body" THEN [p EXCEPT !.in_body = TRUE]
  ELSE IF ~p.in_body THEN p
  ELSE IF tag \in skip_tags THEN [p EXCEPT !.skip_depth = @ + 1]
  ELSE IF p.skip_depth > 0 THEN p
  ELSE IF tag = "p" THEN [p EXCEPT !.in_p = TRUE, !.current_p_parts = <<>>]
  ELSE p

BodyP_handle_endtag(p, tag) ==
  LET Closed(para) ==
        [p EXCEPT !.paragraphs = IF para # "" THEN Append(@, para) ELSE @,
                  !.current_p_parts = <<>>,
                  !.in_p = FALSE]
  IN  IF tag = "body" THEN [p EXCEPT !.in_body = FALSE]
      ELSE IF ~p.in_body THEN p
      ELSE IF tag \in skip_tags /\ p.skip_depth > 0 THEN [p EXCEPT !.skip_depth = @ - 1]
      ELSE IF p.skip_depth > 0 THEN p
      ELSE IF tag = "p" /\ p.in_p
      THEN Closed(normalize_inner_text(Join(p.current_p_parts, " ")))
      ELSE p

BodyP_handle_data(p, data) ==
  LET Raw(q, raw) == IF raw # "" THEN [q EXCEPT !.body_text_parts = Append(@, raw)] ELSE q
      Part(q, txt) == IF txt # "" THEN [q EXCEPT !.current_p_parts = Append(@, txt)] ELSE q
      InP(q) == IF ~q.in_p THEN q ELSE Part(q, clean_text(data))
  IN  IF ~p.in_body \/ p.skip_depth > 0 THEN p
      ELSE InP(Raw(p, normalize_inner_text(data)))

\* BodyPExtractor has no handle_comment: HTMLParser's does nothing
BodyP_handle(p, e) ==
  IF e.ev = "start" THEN BodyP_handle_starttag(p, Lower(e.tag), e.attrs)
  ELSE IF e.ev = "end" THEN BodyP_handle_endtag(p, Lower(e.tag))
  ELSE IF e.ev = "data" THEN BodyP_handle_data(p, e.data)
  ELSE p

\* lines 602 and 603 of extract_body_p_text, p being the parser fed
body_p_result(p) == Clip(Join(filter_article_paragraphs(p.paragraphs), "\n"))

\* ArticleBodyInnerTextExtractor()
ArticleBodyInnerTextExtractor == [skip_depth |-> 0, stack |-> <<>>, candidates |-> <<>>]

Inner_handle_starttag(p, tag, attrs) ==
  [p EXCEPT !.skip_depth = IF tag \in skip_tags_inner THEN @ + 1 ELSE @,
            !.stack = Append(@, [tag |-> tag, is_target |-> _is_step1_target(tag, attrs),
                                 parts |-> <<>>])]

\* lines 633 to 635: the text of the candidate the text of a target gives
inner_text_value(text) ==
  Clip(Join(filter_article_paragraphs(MapSeq(SplitLines(text), clean_text)), "\n"))

Inner_handle_endtag(p, tag) ==
  LET Pop(node, rest, text) ==
        [p EXCEPT !.candidates =
                    IF node.is_target /\ text # "" /\ inner_text_value(text) # ""
                    THEN Append(@, inner_text_value(text)) ELSE @,
                  !.stack =
                    IF rest # <<>> /\ text # ""
                    THEN [rest EXCEPT ![Len(rest)].parts = Append(@, text)] ELSE rest,
                  !.skip_depth = IF tag \in skip_tags_inner /\ @ > 0 THEN @ - 1 ELSE @]
      Popped(node) ==
        Pop(node, SubSeq(p.stack, 1, Len(p.stack) - 1),
            normalize_inner_text(Join(node.parts, " ")))
  IN  IF p.stack = <<>> THEN p ELSE Popped(p.stack[Len(p.stack)])

Inner_handle_data(p, data) ==
  LET Part(txt) ==
        IF txt # "" THEN [p EXCEPT !.stack[Len(p.stack)].parts = Append(@, txt)] ELSE p
  IN  IF p.skip_depth > 0 \/ p.stack = <<>> THEN p
      ELSE Part(normalize_inner_text(data))

\* ArticleBodyInnerTextExtractor has no handle_comment
Inner_handle(p, e) ==
  IF e.ev = "start" THEN Inner_handle_starttag(p, Lower(e.tag), e.attrs)
  ELSE IF e.ev = "end" THEN Inner_handle_endtag(p, Lower(e.tag))
  ELSE IF e.ev = "data" THEN Inner_handle_data(p, e.data)
  ELSE p

\* lines 653 to 656 of extract_articlebody_inner_text, p being the parser fed
inner_result(p) == IF p.candidates = <<>> THEN "" ELSE Longest(p.candidates)

RECURSIVE Priority_feed(_, _)
RECURSIVE BodyP_feed(_, _)
RECURSIVE Inner_feed(_, _)
\* p.feed(html_doc) of each parser: the handlers called in the order of the
\* events (the test of skip_depth has the state of the parser computed
\* before the next event is handled)
Priority_feed(p, events) ==
  IF events = <<>> \/ p.skip_depth < 0 THEN p
  ELSE Priority_feed(Priority_handle(p, Head(events)), Tail(events))

BodyP_feed(p, events) ==
  IF events = <<>> \/ p.skip_depth < 0 THEN p
  ELSE BodyP_feed(BodyP_handle(p, Head(events)), Tail(events))

Inner_feed(p, events) ==
  IF events = <<>> \/ p.skip_depth < 0 THEN p
  ELSE Inner_feed(Inner_handle(p, Head(events)), Tail(events))

extract_priority_p_text(html_doc) == priority_result(Priority_feed(PriorityPExtractor, html_doc))

extract_body_p_text(html_doc) == body_p_result(BodyP_feed(BodyPExtractor, html_doc))

extract_articlebody_inner_text(html_doc) ==
  inner_result(Inner_feed(ArticleBodyInnerTextExtractor, html_doc))

(***************************************************************************)
(* fetch_article_body: one call, followed through http_text and the three  *)
(* extractors, one event of the document at a time.                        *)
(***************************************************************************)
\* <div itemprop="articleBody">, </div> and what stands between them
Tagged(inner) == <<StartTag("div", Attrs("articleBody", ""))>> \o inner \o <<EndTag("div")>>

\* <p>text</p>
P(text) == <<StartTag("p", NoAttrs), Data(text), EndTag("p")>>

\* a div that is not the article: a link to another story, and a login box
NOISY == <<StartTag("div", NoAttrs)>> \o P("Related: an old chip story.")
           \o <<StartTag("div", NoAttrs), Data("login now"), EndTag("div"), EndTag("div")>>

\* <!-- the marker --> and the section that follows it
ANCHORED == <<Comment(" ^^ ^^ "), StartTag("section", NoAttrs)>> \o P("Jobs grow in Seoul now.")
              \o <<EndTag("section")>>

\* what the tagged container may hold: paragraphs, bare text, nested
\* elements, void elements, skip regions
INNERS ==
  {P("Chip sales rise again."),
   P("Chip sales rise again.") \o P("login to read more"),
   <<Data("Chip sales rise again.")>>,
   <<StartTag("div", NoAttrs)>> \o P("Chip sales rise again.") \o <<EndTag("div")>>,
   <<StartTag("p", NoAttrs), Data("Chip sales rise"), StartTag("br", NoAttrs),
     Data("again today."), EndTag("p")>>,
   <<StartTag("img", NoAttrs)>> \o P("Chip sales rise again."),
   <<StartTag("img", NoAttrs), Data("Chip sales rise again.")>>,
   <<StartTag("svg", NoAttrs), Data("icon"), EndTag("svg"), Data("Chip sales rise again.")>>,
   <<StartTag("svg", NoAttrs), StartTag("svg", NoAttrs), Data("icon"), EndTag("svg"),
     Data("icon two"), EndTag("svg"), Data("Chip sales rise again.")>>,
   <<StartTag("noscript", NoAttrs), StartTag("iframe", NoAttrs)>> \o P("Enable scripts now.")
     \o <<EndTag("iframe"), EndTag("noscript")>> \o P("Chip sales rise again.")}

\* a div without the tag of the article, with nested skip regions before
\* its text
SKIPPED == <<StartTag("div", NoAttrs), StartTag("svg", NoAttrs), StartTag("script", NoAttrs),
             Data("icon"), EndTag("script"), Data("icon two"), EndTag("svg"),
             Data("Chip sales rise again."), EndTag("div")>>

\* a section with two paragraphs, after the marker or after another comment
SECTION2 == <<StartTag("section", NoAttrs)>> \o P("Chip sales rise again.")
              \o P("Jobs grow in Seoul now.") \o <<EndTag("section")>>

\* documents with several candidates: two tagged containers, a tagged one and
\* a longer anchored one, two anchored ones
SEVERAL ==
  {Tagged(P("Chip sales rise again."))
     \o Tagged(P("Chip sales rise again.") \o P("Jobs grow in Seoul now.")),
   Tagged(P("Chip sales rise again.") \o P("Jobs grow in Seoul now."))
     \o Tagged(P("Chip sales rise again.")),
   Tagged(P("Chip sales rise again.")) \o Tagged(P("Chip sales fall again.")),
   <<Comment("^^ ^^")>> \o SECTION2 \o Tagged(P("Chip sales rise again.")),
   ANCHORED \o <<Comment("^^ ^^")>> \o SECTION2,
   <<Comment("^^ ^^")>> \o SECTION2 \o ANCHORED}

\* documents with a comment and a section or div that does not follow it at
\* once, or that follows a comment without the marker
COMMENTED ==
  {<<Comment(" ^^ ^^ ")>> \o P("Chip sales rise again.") \o SECTION2,
   <<Comment(" ^^ ^^ "), Data("Top story of the day."), StartTag("div", NoAttrs)>>
     \o P("Jobs grow in Seoul now.") \o <<EndTag("div")>>,
   ANCHORED \o SECTION2,
   <<Comment(" ad ")>> \o SECTION2}

\* <body>, </body> and what stands between them, or that alone
Page(body, parts) ==
  IF body THEN <<StartTag("body", NoAttrs)>> \o parts \o <<EndTag("body")>> ELSE parts

\* the documents of the model
Docs ==
  {Page(b, before \o Tagged(inner) \o after) :
     b \in BOOLEAN, before \in {<<>>, NOISY}, after \in {<<>>, NOISY}, inner \in INNERS}
  \cup {Page(b, parts) :
          b \in BOOLEAN,
          parts \in {<<>>, NOISY, SKIPPED, ANCHORED,
                     ANCHORED \o Tagged(P("Chip sales rise again.")),
                     P("Chip sales rise again.") \o ANCHORED,
                     <<Data("== ==")>>}}
  \cup {Page(b, parts) : b \in BOOLEAN, parts \in SEVERAL \cup COMMENTED}

\* what http_text does for the url: it raises, or returns the document
HTTP_ERRORS == {"HTTPError", "URLError", "TimeoutError"}

\* the extractor whose feed raises, if one does
PHASES == {"priority", "body_p", "inner"}

\* the calls of the model: the url, the outcome of http_text, and the parser
\* that raises, if one does
FabCalls ==
  {[url |-> "", http |-> "html", doc |-> <<>>, feed_raises |-> ""]}
  \cup {[url |-> "u1", http |-> e, doc |-> <<>>, feed_raises |-> ""] : e \in HTTP_ERRORS}
  \cup {[url |-> "u1", http |-> "html", doc |-> d, feed_raises |-> ""] : d \in Docs}
  \cup {[url |-> "u1", http |-> "html", doc |-> Page(TRUE, <<>>), feed_raises |-> ph] :
          ph \in PHASES}

\* fetch_article_body(url) entered
Call(c) ==
  [status |-> "call", url |-> c.url, http |-> c.http, doc |-> c.doc,
   feed_raises |-> c.feed_raises, phase |-> "", pos |-> 0, parser |-> <<>>,
   error |-> "", ret |-> ""]

\* no except clause: the exception leaves fetch_article_body
except_nothing(s) == [s EXCEPT !.status = "raised"]

\* lines 674 and 675: except Exception: return ""
except_Exception(s) == [s EXCEPT !.status = "returned", !.ret = ""]

\* the exception err raised inside the try block of the call s
Raise(s, err) == except_Exception([s EXCEPT !.error = err])

\* the extractor of the phase is created and fed from the first event
Enter(s, phase, parser) ==
  [s EXCEPT !.status = "feeding", !.phase = phase, !.pos = 1, !.parser = parser]

\* return text
Return(s, text) == [s EXCEPT !.status = "returned", !.ret = text]

InitHtml ==
  /\ fab \in {Call(c) : c \in FabCalls}
  /\ news = NoNews
  /\ cfg = Config(1, FALSE, TRUE, 1)
  /\ tin = NoText
  /\ tout = NoText
  /\ tpc = "off"
  /\ exists = FALSE
  /\ archive = <<>>
  /\ out_exists = FALSE
  /\ out_rows = <<>>
  /\ nops = 0
  /\ wr = NoWriters
  /\ pc = "off"
  /\ f = NoFetch
  /\ got = NoGot
  /\ last = NoLast

\* lines 660 to 667: the test of the url, http_text, the first parser
HttpText ==
  /\ fab.status = "call"
  /\ fab' = IF fab.url = "" THEN Return(fab, "")
            ELSE IF fab.http # "html" THEN Raise(fab, fab.http)
            ELSE Enter(fab, "priority", PriorityPExtractor)
  /\ UNCHANGED <<cfg, exists, archive, out_exists, out_rows, nops, pc, f, got, last,
                 tin, tout, tpc, news, wr>>

\* the parser of the phase handles the next event of the document with the
\* handler H, or raises
Feed(phase, H(_, _)) ==
  /\ fab.status = "feeding"
  /\ fab.phase = phase
  /\ fab.pos <= Len(fab.doc)
  /\ fab' = IF fab.feed_raises = phase THEN Raise(fab, phase)
            ELSE [fab EXCEPT !.parser = H(fab.parser, fab.doc[fab.pos]), !.pos = @ + 1]
  /\ UNCHANGED <<cfg, exists, archive, out_exists, out_rows, nops, pc, f, got, last,
                 tin, tout, tpc, news, wr>>

\* the feed of the phase is over: the result is returned when it is not
\* empty or when the phase is the last one, and the next parser is created
\* otherwise
Done(phase, result, next, parser) ==
  /\ fab.status = "feeding"
  /\ fab.phase = phase
  /\ fab.pos > Len(fab.doc)
  /\ fab' = IF result # "" \/ next = "" THEN Return(fab, result)
            ELSE Enter(fab, next, parser)
  /\ UNCHANGED <<cfg, exists, archive, out_exists, out_rows, nops, pc, f, got, last,
                 tin, tout, tpc, news, wr>>

FeedPriority == Feed("priority", Priority_handle)
FeedBodyP    == Feed("body_p", BodyP_handle)
FeedInner    == Feed("inner", Inner_handle)

\* lines 667 to 669
PriorityDone ==
  /\ fab.phase = "priority"
  /\ Done("priority", priority_result(fab.parser), "body_p", BodyPExtractor)

\* lines 670 to 672
BodyPDone ==
  /\ fab.phase = "body_p"
  /\ Done("body_p", body_p_result(fab.parser), "inner", ArticleBodyInnerTextExtractor)

\* line 673
InnerDone ==
  /\ fab.phase = "inner"
  /\ Done("inner", inner_result(fab.parser), "", <<>>)

NextHtml ==
  \/ HttpText
  \/ FeedPriority
  \/ FeedBodyP
  \/ FeedInner
  \/ PriorityDone
  \/ BodyPDone
  \/ InnerDone

SpecHtml == InitHtml /\ [][NextHtml]_vars

(***************************************************************************)
(* The HTML body extractor: claims C14 to C17                              *)
(***************************************************************************)
\* C14: a call of fetch_article_body never raises: no exception of
\* http_text or of a parser leaves it; what it returns is a string, and it
\* is the empty string when the url is empty and whenever an exception
\* was raised inside it.
C14_NeverRaises ==
  /\ fab.status # "raised"
  /\ fab.status = "returned"
       => /\ fab.ret \in STRING
          /\ (fab.url = "" \/ fab.error # "") => fab.ret = ""

\* a call has returned after its second parser raised
C14_Witness ==
  /\ fab.status = "returned"
  /\ fab.url # ""
  /\ fab.error = "body_p"
  /\ fab.ret = ""

RECURSIVE FirstNonEmpty(_)
\* the first text of the sequence that is not empty, "" when all are
FirstNonEmpty(texts) ==
  IF texts = <<>> THEN ""
  ELSE IF Head(texts) # "" THEN Head(texts)
  ELSE FirstNonEmpty(Tail(texts))

\* the longest candidate, "" when there is none
LongestOrNone(candidates) == IF candidates = <<>> THEN "" ELSE Longest(candidates)

\* what the tagged containers of a document give, and what its
\* comment-anchored sections give
TaggedText(doc)   == LongestOrNone(Priority_feed(PriorityPExtractor, doc).candidates_step1)
AnchoredText(doc) == LongestOrNone(Priority_feed(PriorityPExtractor, doc).candidates_step2)

\* a call that went through http_text and the extractors without an
\* exception, and returned
Extracted == fab.status = "returned" /\ fab.url # "" /\ fab.error = ""

\* C15, as the specification has it: fetch_article_body returns the first
\* non-empty of the text of the whole document body, the text of the
\* tagged container, the text of the comment-anchored section and "".
C15_StrategyOrder ==
  Extracted
    => fab.ret = FirstNonEmpty(<<extract_body_p_text(fab.doc), TaggedText(fab.doc),
                                 AnchoredText(fab.doc)>>)

\* C15, amended: fetch_article_body returns the first non-empty of the
\* text of the tagged container, the text of the comment-anchored section,
\* the paragraphs of the document body, the inner text of the tagged
\* container and "": the structural candidates come before the text of
\* the whole body.
C15_CodeOrder ==
  Extracted
    => fab.ret = FirstNonEmpty(<<TaggedText(fab.doc), AnchoredText(fab.doc),
                                 extract_body_p_text(fab.doc),
                                 extract_articlebody_inner_text(fab.doc)>>)

\* a call has returned the text of a tagged container for a document whose
\* body paragraphs and whose comment-anchored section give other texts
C15_Witness ==
  /\ Extracted
  /\ TaggedText(fab.doc) # ""
  /\ AnchoredText(fab.doc) # ""
  /\ extract_body_p_text(fab.doc) \notin {"", TaggedText(fab.doc)}
  /\ fab.ret = TaggedText(fab.doc)
  /\ fab.ret # AnchoredText(fab.doc)


\* the elements of the documents that have no end tag
VOID_TAGS == {"br", "img"}

\* the position of the start tag of the first tagged container of the
\* document, 0 when it has none
ContainerStart(doc) ==
  LET starts == {i \in 1..Len(doc) :
                   doc[i].ev = "start" /\ _is_step1_target(doc[i].tag, doc[i].attrs)}
  IN IF starts = {} THEN 0 ELSE Least(starts)

RECURSIVE ContainerEnd(_, _, _)
\* the position of the end tag that closes the element open at position
\* i with depth elements open inside it and around i: a void element opens
\* nothing
ContainerEnd(doc, i, depth) ==
  IF i > Len(doc) THEN Len(doc)
  ELSE IF doc[i].ev = "start" /\ doc[i].tag \notin VOID_TAGS
    THEN ContainerEnd(doc, i + 1, depth + 1)
  ELSE IF doc[i].ev = "end"
    THEN IF depth = 1 THEN i ELSE ContainerEnd(doc, i + 1, depth - 1)
  ELSE ContainerEnd(doc, i + 1, depth)

\* the tagged container of the document, from its start tag to its end tag
Container(doc) ==
  SubSeq(doc, ContainerStart(doc), ContainerEnd(doc, ContainerStart(doc) + 1, 1))

\* the events without the start tags of void elements, which hold no text
WithoutVoid(events) ==
  SelectSeq(events, LAMBDA e : ~(e.ev = "start" /\ e.tag \in VOID_TAGS))

\* the filtered paragraph text of the tagged container of the document:
\* what the container gives when it is the whole document
ContainerText(doc) == TaggedText(WithoutVoid(Container(doc)))

\* C16: for a document with a tagged container, wherever the container
\* stands among the other divs and whatever elements it holds, void
\* elements included, fetch_article_body returns the filtered paragraph
\* text of that container and nothing else.
C16_TaggedContainer ==
  (Extracted /\ ContainerStart(fab.doc) # 0) => fab.ret = ContainerText(fab.doc)


RECURSIVE OpenElements(_, _)
\* the elements open after the events, outermost first, when the elements
\* of stack were open before them: a start tag opens an element unless the
\* element is void, an end tag closes the innermost open element of its
\* name and what is open inside it
OpenElements(stack, events) ==
  IF events = <<>> THEN stack
  ELSE OpenElements(
         LET Next1(e) ==
               IF e.ev = "start" /\ e.tag \notin VOID_TAGS THEN Append(stack, e.tag)
               ELSE IF e.ev = "end" /\ \E i \in 1..Len(stack) : stack[i] = e.tag
                 THEN SubSeq(stack, 1,
                             Greatest({i \in 1..Len(stack) : stack[i] = e.tag}) - 1)
               ELSE stack
         IN Next1(Head(events)),
         Tail(events))

\* the number of open elements, after the events, whose tag is one of tags
OpenSkips(events, tags) ==
  LET Skips(stack) == Cardinality({i \in 1..Len(stack) : stack[i] \in tags})
  IN Skips(OpenElements(<<>>, events))

\* the events after the last <body>, none when there is no <body>
SinceBody(events) ==
  LET Since(bodies) ==
        IF bodies = {} THEN <<>> ELSE SubSeq(events, Greatest(bodies) + 1, Len(events))
  IN Since({i \in 1..Len(events) : events[i].ev = "start" /\ events[i].tag = "body"})

\* the events the running extractor of the call s has handled and in which
\* it counts skip elements: BodyPExtractor looks at nothing outside the body
Counted(s) ==
  IF s.phase = "body_p" THEN SinceBody(SubSeq(s.doc, 1, s.pos - 1))
  ELSE SubSeq(s.doc, 1, s.pos - 1)

\* self.skip_tags of the extractor of the phase
SkipTagsOf(phase) == IF phase = "inner" THEN skip_tags_inner ELSE skip_tags

\* the handler of the extractor of the phase
Handle(phase, p, e) ==
  CASE phase = "priority" -> Priority_handle(p, e)
    [] phase = "body_p"   -> BodyP_handle(p, e)
    [] phase = "inner"    -> Inner_handle(p, e)

\* the extractor with no skip region counted
Unskipped(p) == [p EXCEPT !.skip_depth = 0]

\* one step of a call, seen by C17
SkipNesting ==
  /\ (fab').status = "feeding"
       => /\ (fab').parser.skip_depth >= 0
          /\ (fab').parser.skip_depth = OpenSkips(Counted(fab'), SkipTagsOf((fab').phase))
  /\ (/\ fab.status = "feeding"
      /\ (fab').status = "feeding"
      /\ (fab').pos = fab.pos + 1
      /\ fab.doc[fab.pos].ev = "data")
       => /\ fab.parser.skip_depth > 0 => (fab').parser = fab.parser
          /\ OpenSkips(Counted(fab), SkipTagsOf(fab.phase)) = 0
               => Unskipped((fab').parser)
                    = Handle(fab.phase, Unskipped(fab.parser), fab.doc[fab.pos])

\* C17: in each of the three extractors skip_depth is never negative and
\* is the number of skip elements that are open; a text event received
\* while skip_depth > 0 changes no paragraph, container or body text; and
\* text received when every skip element has been left is handled as if
\* there had been none.
C17_SkipNesting == [][SkipNesting]_vars


(***************************************************************************)
(* The stored body, the ai_summary fallback, the reasoning calls: claims   *)
(* C21 to C23                                                              *)
(***************************************************************************)
\* the description and the text main works on for the article a, given what
\* fetch_article_body returned
DescOf(a) == clean_text(a.description)
BodyRawOf(a, extracted) == Or(extracted, Or(clean_text(a.content), DescOf(a)))

\* C21: the body main stores for an article is the formatted extraction
\* text when that is not empty, else the summary, else the description; it
\* is not empty when one of the three is not.
C21_BodyPrecedence ==
  Applied("make_entry")
    => tout.ret.body
         = FirstNonEmpty(<<format_crawled_body(clean_text(tin.a.title), DescOf(tin.a),
                                               BodyRawOf(tin.a, tin.extracted)),
                           tout.ret.summary,
                           DescOf(tin.a)>>)


\* the source build_ai_summary works on
SourceOf(call) == minimal_context_filter(call.title, call.description, call.body_text)

\* the reasoning call of build_ai_summary fails: there is no credential, the
\* call raises (network error, timeout, a body that is no JSON object), or
\* its answer is empty or holds no readable character
CallFails(call) ==
  \/ ~cfg.OPENAI_API_KEY
  \/ call.resp.kind = "raise"
  \/ ~_has_readable_content(_normalize_ai_summary_text(call.resp.text))

\* C22: when the source is readable and the reasoning call fails in
\* whatever way, build_ai_summary returns the template _fallback_ai_summary
\* builds from the title and the source, the same for every kind of
\* failure.
C22_FallbackTier ==
  (Applied("build_ai_summary") /\ _has_readable_content(SourceOf(tin)) /\ CallFails(tin))
    => tout.ret = _fallback_ai_summary(tin.title, SourceOf(tin))


\* C23: summarize invokes each of its two stages at most once, the second
\* only after the first has returned a non-empty summary; build_ai_summary
\* makes at most one call; and neither makes a call when no credential is
\* configured.
C23_CallDiscipline ==
  /\ Applied("summarize")
       => /\ tout.calls \in {NoCall, <<"A">>, <<"A", "B">>}
          /\ tout.calls = <<"A", "B">>
               => (tin.respA.kind = "text" /\ clean_text(Strip(tin.respA.text)) # "")
          /\ ~cfg.OPENAI_API_KEY => tout.calls = NoCall
  /\ Applied("build_ai_summary")
       => /\ tout.calls \in {NoCall, <<"S">>}
          /\ ~cfg.OPENAI_API_KEY => tout.calls = NoCall

\* with a credential, the first stage raised: it was called once, the
\* second stage was not called, and summarize returned the local summary
C23_Witness ==
  /\ Applied("summarize")
  /\ cfg.OPENAI_API_KEY
  /\ tin.respA.kind = "raise"
  /\ tout.calls = <<"A">>
  /\ tout.tier = "local"


(***************************************************************************)
(* The extractors applied on their own, each once to a document drawn at   *)
(* the start.                                                              *)
(***************************************************************************)
EXTRACTORS == {"extract_priority_p_text", "extract_body_p_text",
               "extract_articlebody_inner_text"}

InitExtract ==
  /\ tin \in {[fn |-> fn, doc |-> d] : fn \in EXTRACTORS, d \in Docs}
  /\ tout = NoText
  /\ tpc = "start"
  /\ cfg = Config(1, FALSE, TRUE, 1)
  /\ exists = FALSE
  /\ archive = <<>>
  /\ out_exists = FALSE
  /\ out_rows = <<>>
  /\ nops = 0
  /\ wr = NoWriters
  /\ pc = "off"
  /\ f = NoFetch
  /\ got = NoGot
  /\ last = NoLast
  /\ news = NoNews
  /\ fab = NoBody

\* extract_priority_p_text(html_doc): what it returns, and the candidates
\* its parser had after the feed
ExtractPriorityPText ==
  /\ tpc = "start" /\ tin.fn = "extract_priority_p_text"
  /\ \E p \in {Priority_feed(PriorityPExtractor, tin.doc)} :
       Returns([ret |-> priority_result(p), candidates_step1 |-> p.candidates_step1,
                candidates_step2 |-> p.candidates_step2])

\* extract_body_p_text(html_doc)
ExtractBodyPText ==
  /\ tpc = "start" /\ tin.fn = "extract_body_p_text"
  /\ Returns([ret |-> extract_body_p_text(tin.doc)])

\* extract_articlebody_inner_text(html_doc): what it returns, and the
\* candidates its parser had after the feed
ExtractArticlebodyInnerText ==
  /\ tpc = "start" /\ tin.fn = "extract_articlebody_inner_text"
  /\ \E p \in {Inner_feed(ArticleBodyInnerTextExtractor, tin.doc)} :
       Returns([ret |-> inner_result(p), candidates |-> p.candidates])

NextExtract ==
  \/ ExtractPriorityPText
  \/ ExtractBodyPText
  \/ ExtractArticlebodyInnerText

SpecExtract == InitExtract /\ [][NextExtract]_vars

(***************************************************************************)
(* The candidates of the extractors: claims C24 and C25                    *)
(***************************************************************************)
\* text is one of the candidates and none of them is longer
IsLongestOf(text, candidates) ==
  /\ \E i \in 1..Len(candidates) : candidates[i] = text
  /\ \A i \in 1..Len(candidates) : Len(candidates[i]) <= Len(text)

\* C24: extract_priority_p_text returns a longest of the candidates of
\* step 1 when there is one, however long the candidates of step 2 are, and
\* a longest candidate of step 2 only when there is none of step 1;
\* extract_articlebody_inner_text returns a longest of its candidates.
C24_LongestOfLevel ==
  /\ Applied("extract_priority_p_text")
       => /\ tout.candidates_step1 # <<>> => IsLongestOf(tout.ret, tout.candidates_step1)
          /\ (tout.candidates_step1 = <<>> /\ tout.candidates_step2 # <<>>)
               => IsLongestOf(tout.ret, tout.candidates_step2)
  /\ Applied("extract_articlebody_inner_text")
       => (tout.candidates # <<>> => IsLongestOf(tout.ret, tout.candidates))

\* extract_priority_p_text had two candidates of step 1, the second the
\* longer, and returned the second
C24_Witness ==
  /\ Applied("extract_priority_p_text")
  /\ Len(tout.candidates_step1) = 2
  /\ Len(tout.candidates_step1[1]) < Len(tout.candidates_step1[2])
  /\ tout.ret = tout.candidates_step1[2]


\* handle_comment's test: the comment holds the marker
IsMarker(data) == Contains(RemoveSpaces(clean_text(data)), ARTICLE_MARK)

\* PriorityPExtractor handles the next event of the document and pushes a
\* container of step 2
MarksContainer ==
  /\ fab.status = "feeding"
  /\ fab.phase = "priority"
  /\ (fab').status = "feeding"
  /\ (fab').phase = "priority"
  /\ (fab').pos = fab.pos + 1
  /\ Len((fab').parser.container_stack) = Len(fab.parser.container_stack) + 1
  /\ (fab').parser.container_stack[Len((fab').parser.container_stack)].step = 2

\* the event before the next one is a comment that holds the marker
FollowsMarker ==
  /\ fab.pos > 1
  /\ fab.doc[fab.pos - 1].ev = "comment"
  /\ IsMarker(fab.doc[fab.pos - 1].data)

\* C25: PriorityPExtractor makes a section or div a comment-anchored
\* container only when a comment with the marker stands immediately before
\* its start tag: an element separated from the comment by text or by other
\* elements is not marked, and a comment marks at most one element.
C25_CommentAnchoring ==
  [][MarksContainer => (fab.doc[fab.pos].tag \in {"section", "div"} /\ FollowsMarker)]_vars


(***************************************************************************)
(* Two calls of append_entries on the same path, in two processes: each    *)
(* reads the ids of the file (line 752), then opens the file for appending *)
(* and writes its new rows (lines 754 to 761).                             *)
(***************************************************************************)
WRITERS == {1, 2}

\* the entries the two calls are given
WRITER_BATCHES == {<<Entry("a")>>, <<Entry("c"), Entry("a")>>, <<Entry("b")>>, <<>>}

\* the archive the two calls find: absent, empty, or with one record
WRITER_FILES == {File(FALSE, <<>>), File(TRUE, <<>>),
                 File(TRUE, <<RecordLine(OldRow("a", "T0"))>>),
                 File(TRUE, <<RecordLine(OldRow("b", "T0")), MalformedLine>>)}

\* append_entries(path, entries) entered
Writer(entries) == [pc |-> "call", entries |-> entries, existing |-> {}, added |-> 0]

InitWriters ==
  /\ wr \in [WRITERS -> {Writer(b) : b \in WRITER_BATCHES}]
  /\ \E file \in WRITER_FILES : exists = file.exists /\ archive = file.lines
  /\ cfg = Config(1, FALSE, TRUE, 1)
  /\ out_exists = FALSE
  /\ out_rows = <<>>
  /\ nops = 0
  /\ pc = "off"
  /\ f = NoFetch
  /\ got = NoGot
  /\ last = NoLast
  /\ tin = NoText
  /\ tout = NoText
  /\ tpc = "off"
  /\ news = NoNews
  /\ fab = NoBody

\* line 752: existing = load_existing_ids(path)
WriterLoad(w) ==
  /\ wr[w].pc = "call"
  /\ \E loaded \in {load_existing_ids(exists, archive)} :
       wr' = [wr EXCEPT ![w].pc = IF loaded.raised THEN "raised" ELSE "loaded",
                        ![w].existing = loaded.ids]
  /\ UNCHANGED <<cfg, exists, archive, out_exists, out_rows, nops, pc, f, got, last,
                 tin, tout, tpc, news, fab>>

\* lines 754 to 762: the file opened for appending, the loop, the return;
\* the rows reach the file in one piece when the file is closed
WriterWrite(w) ==
  /\ wr[w].pc = "loaded"
  /\ \E written \in {AppendLoop(wr[w].entries, wr[w].existing)} :
       /\ archive' = archive \o written
       /\ exists' = TRUE
       /\ wr' = [wr EXCEPT ![w].pc = "returned", ![w].added = Len(written)]
  /\ UNCHANGED <<cfg, out_exists, out_rows, nops, pc, f, got, last, tin, tout, tpc, news, fab>>

NextWriters == \E w \in WRITERS : WriterLoad(w) \/ WriterWrite(w)

SpecWriters == InitWriters /\ [][NextWriters]_vars

(***************************************************************************)
(* Concurrent writers: claim C26                                           *)
(***************************************************************************)
\* one call has read the ids and not yet written, and so has the other
Interleaved == \A w \in WRITERS : wr[w].pc = "loaded"

\* C26: of two calls of append_entries that run at the same time on one
\* path, none reads the ids of the file between the read and the write of
\* the other, and an id both are given is stored at most once.
C26_WriterSerialization ==
  /\ ~Interleaved
  /\ \A id \in {"a", "b", "c"} : CountId(archive, id) <= 1


(***************************************************************************)
(* The export's bullets and the candidates of a run: claims C27 and C28    *)
(***************************************************************************)
\* every non-empty line of the text begins with "-"
Bulleted(text) ==
  \A i \in 1..Len(SplitLines(text)) :
    SplitLines(text)[i] # "" => MatchAt(SplitLines(text)[i], 1, "-")

\* C27: for a record of which the scraped body, the body or the summary is
\* not empty once sanitized, the exported body is bullet-formatted and the
\* exported summary is equal to it; when the summary of the record is
\* bulleted already the exported body is that summary, and otherwise the
\* exported body has at most 24 lines.
C27_ExportBulleting ==
  (/\ Applied("export_row")
   /\ \/ sanitize(tin.row.scraped_body, "body") # ""
      \/ sanitize(tin.row.body, "body") # ""
      \/ sanitize(tin.row.summary, "summary") # "")
    => /\ Bulleted(tout.ret.body)
       /\ tout.ret.summary = tout.ret.body
       /\ IF looks_like_bullets(sanitize(tin.row.summary, "summary"))
          THEN tout.ret.body = sanitize(tin.row.summary, "summary")
          ELSE Len(SplitLines(tout.ret.body)) <= MAX_BULLET_LINES


\* the article passes the tests of unique_articles: a title that is not empty
\* once cleaned and a url that is not empty once stripped
Eligible(a) == clean_text(a.title) # "" /\ Strip(a.url) # ""

\* the key under which unique_articles remembers the article
TitleKey(a) == Lower(clean_text(a.title))

\* the positions of the list that hold the first eligible article of a title
Firsts(articles) ==
  {i \in 1..Len(articles) :
     /\ Eligible(articles[i])
     /\ \A j \in 1..(i - 1) :
          Eligible(articles[j]) => TitleKey(articles[j]) # TitleKey(articles[i])}

=============================================================================
